---- MODULE Spec2Model ----
(***************************************************************************)
(* Verification model of the orchestration core of claire:                 *)
(*   - the session-scoped job scheduler (src/src/controller/scheduler.ts), *)
(*     with the Session/Job managers (src/unnamed/part_009) and the local  *)
(*     job store (src/src/storage/local.ts);                               *)
(*   - the agent loop (src/src/worker/agent.ts).                           *)
(*                                                                         *)
(* The program is a single-threaded event loop.  A task is suspended by    *)
(* every awaited call of the store, the bus, Slack, the LLM and a tool;    *)
(* other tasks run while it is suspended.  As in storage/local.ts, a store *)
(* call reads or changes the in-memory maps when it is called and then     *)
(* suspends its caller.  Each action below is one atomic segment of a      *)
(* task: from the moment it resumes, through its synchronous code, to the  *)
(* effect of the next awaited call.  `await getStorage()` returns a cached *)
(* singleton and does not suspend; a findById whose result only feeds the  *)
(* payload of an event is read together with the store update next to it.  *)
(***************************************************************************)
EXTENDS Integers, Sequences, FiniteSets, TLC

(***************************************************************************)
(* Bounds of the model.                                                    *)
(***************************************************************************)
MaxJobs == 2        \* number of JobManager.enqueue calls
MaxWorkers == 2     \* number of runWorker invocations in progress at once
MaxCancels == 1     \* number of cancellations requested: SessionManager.abort
                    \* and stop calls, runtime timeouts

MaxIterations == 2  \* the iteration cap of the agent loop (MAX_AGENT_ITERATIONS)
MaxToolCalls == 2   \* number of tool calls in one LLM response
MaxToolRuns == 2    \* number of shell tool executions of one job
MaxRetriesOption == 3  \* largest maxRetries option given to retry
MaxSubscribes == 3  \* number of EventBus.subscribe calls that add a callback
MaxPublishes == 2   \* number of EventBus.publish calls
MaxResolves == 3    \* number of SessionManager.resolveOrCreate calls
MaxExecutes == 3    \* number of ToolRegistry.execute calls of one agent run
MaxRuns == 2        \* number of runAgentLoop calls of one session
MaxClock == 2       \* latest reading of the clock (Date.now, mtimeMs)
MaxEnqueues == 3    \* number of JobManager.enqueue calls over two sessions
MaxInvocations == 3 \* number of runWorker invocations over two sessions
MaxPending == 2     \* scheduleNext calls of one session suspended at a time

Sessions == {"s1"}
JobIds == 1..MaxJobs
WorkerIds == 1..MaxWorkers

NoWorker == 0
NoJob == 0

VARIABLES
    jobs,           \* store.jobs: job id -> record (local.ts DataStore.jobs)
    sessionStatus,  \* store.sessions[s].status
    activeWorkers,  \* scheduler.ts activeWorkers: session -> worker (0: no entry)
    idleTimers,     \* scheduler.ts idleTimers: does the session have an entry
    enq,            \* the JobManager.enqueue call that creates job j: its position
    workers,        \* the runWorker invocations: their position and AbortController
    ctl,            \* the SessionManager.abort call in flight, and the calls made
    published,      \* the event handed to Bus.publish by the last step
    agent,          \* one runAgentLoop call: its position and local variables
    proc,           \* one execution of a shell tool and its child process
    rt,             \* one call of retry / retryOrThrow
    cls,            \* one error value and what the error functions make of it
    bus,            \* the EventBus: its subscribers and one publish call
    sess,           \* the session store and the resolveOrCreate calls
    main,           \* the process: running, shutting down or exited
    out,            \* what one runWorker invocation reports of its job
    reg,            \* the tool set of one agent run and its tool calls
    art,            \* the artifact store and the collectArtifacts calls of one session
    multi           \* the scheduler and the stores, for two sessions

schedVars == <<jobs, sessionStatus, activeWorkers, idleTimers, enq, workers, ctl, published>>
workerVars == <<agent, proc, rt, cls, bus, sess, main, out, reg, art, multi>>
notAgent == <<schedVars, proc, rt, cls, bus, sess, main, out, reg, art, multi>>
notProc == <<schedVars, agent, rt, cls, bus, sess, main, out, reg, art, multi>>
notRetry == <<schedVars, agent, proc, cls, bus, sess, main, out, reg, art, multi>>
notCls == <<schedVars, agent, proc, rt, bus, sess, main, out, reg, art, multi>>
notBus == <<schedVars, agent, proc, rt, cls, sess, main, out, reg, art, multi>>
notSess == <<schedVars, agent, proc, rt, cls, bus, main, out, reg, art, multi>>
notMain == <<schedVars, agent, proc, rt, cls, bus, sess, out, reg, art, multi>>
notOut == <<schedVars, agent, proc, rt, cls, bus, sess, main, reg, art, multi>>
notReg == <<schedVars, agent, proc, rt, cls, bus, sess, main, out, art, multi>>
notArt == <<schedVars, agent, proc, rt, cls, bus, sess, main, out, reg, multi>>
notMulti == <<schedVars, agent, proc, rt, cls, bus, sess, main, out, reg, art>>
vars == <<schedVars, agent, proc, rt, cls, bus, sess, main, out, reg, art, multi>>

(***************************************************************************)
(* Job records.  status "none": not created yet; "removed": deleted from   *)
(* the store by clearQueued.  promptMessageTs is the Slack message         *)
(* timestamp of a chat job ("1700000000.000100", fixed width digits) or    *)
(* "meet-<Date.now()>" for a Meet trigger job; it is modelled as           *)
(* [meet, t] with t the (monotone) time of submission.                     *)
(***************************************************************************)
NoSummary == <<"none", 0>>
AbortedSummary == <<"Aborted by user", 0>>
ErrorSummary == <<"error", 0>>
ResultSummary == <<"result", 0>>

NoJobRec == [status |-> "none", session |-> "s1", meet |-> FALSE, t |-> 0,
             summary |-> NoSummary]

\* String.prototype.localeCompare on two promptMessageTs values: digits
\* collate before letters, so every chat timestamp sorts before every
\* "meet-..." timestamp; equal-width digit strings compare numerically.
LocaleCompare(a, b) ==
    IF a.meet = b.meet
    THEN (IF a.t < b.t THEN -1 ELSE IF a.t > b.t THEN 1 ELSE 0)
    ELSE (IF b.meet THEN -1 ELSE 1)

\* Array.prototype.sort is stable and Map iterates in insertion order
\* (job ids are handed out in insertion order).
SortsBefore(j, k) ==
    \/ LocaleCompare(jobs[j], jobs[k]) < 0
    \/ LocaleCompare(jobs[j], jobs[k]) = 0 /\ j < k

QueuedJobs(s) == {j \in JobIds : jobs[j].status = "queued" /\ jobs[j].session = s}

findNextQueued(s) ==
    IF QueuedJobs(s) = {} THEN NoJob
    ELSE CHOOSE j \in QueuedJobs(s) : \A k \in QueuedJobs(s) \ {j} : SortsBefore(j, k)

JobExists(j) == jobs[j].status \notin {"none", "removed"}

\* storage.jobs.clearQueued
clearQueued(s) ==
    [j \in JobIds |-> IF j \in QueuedJobs(s)
                      THEN [jobs[j] EXCEPT !.status = "removed"]
                      ELSE jobs[j]]

(***************************************************************************)
(* Tasks.  The JobManager.enqueue call that creates job j is at            *)
(*   "idle"    not called yet                                              *)
(*   "publish" suspended in storage.jobs.create                            *)
(*   "set"     in scheduleNext, suspended in JobManager.getNext, which     *)
(*             found job snJob                                             *)
(*   "done"    returned.                                                   *)
(* A runWorker invocation is at                                            *)
(*   "unused"       no invocation in this slot                             *)
(*   "start"        suspended in JobManager.start                          *)
(*   "gather"       suspended in setStatus("running"), in context          *)
(*                  gathering or in attachment processing                  *)
(*   "loop"         in runAgentLoop, cancellation checks still ahead       *)
(*   "collect"      in runAgentLoop, the loop left, collecting artifacts   *)
(*   "completePub"  suspended in JobManager.complete's store update        *)
(*   "post"         suspended in postResults                               *)
(*   "abortFailPub" suspended in JobManager.fail("Aborted by user")        *)
(*   "errFailPub"   suspended in JobManager.fail(userMessage)              *)
(*   "finally"      suspended in a Slack call, the finally block is next   *)
(*   "arm"          suspended in setStatus("idle")                         *)
(* and, when snJob # NoJob, suspended in the JobManager.getNext of the     *)
(* scheduleNext call made at that stage, which found job snJob.  seen is   *)
(* the status of the job record that JobManager.complete read with         *)
(* findById before its update (part_009:416).                              *)
(* ctl.runningAtAbort and ctl.queuedAtAbort record, for the last           *)
(* SessionManager.abort made while a started job was active, that job and  *)
(* the jobs that were queued then.                                         *)
(***************************************************************************)
NoEvent == [type |-> "none", job |-> NoJob]
Event(t, j) == [type |-> t, job |-> j]

NoEnq == [pc |-> "idle", snJob |-> NoJob]
NoWorkerRec == [pc |-> "unused", session |-> "s1", job |-> NoJob, signal |-> "none",
                seen |-> "none", snJob |-> NoJob]

\* AbortController.signal.aborted of a runWorker invocation; the signal field
\* also records what triggered it first ("abort", "stop" or "timeout")
Aborted(w) == workers[w].signal # "none"

\* runAgentLoop when it is called (agent.ts:172-216): iterations = 0,
\* assistantText = "", toolsUsed empty, the signal of the job not set.
\* llmCalls counts the calls of callLLM; allTools tells whether every response
\* so far requested a tool call; capped whether the loop test ended the loop;
\* jobStatus is the status of the job that is run, which JobManager.start
\* marked running before the call (scheduler.ts:127).  asked is the toolCalls
\* of the latest response; turn is what the iteration of that response has
\* pushed to conversation; log is the tool events published in that iteration;
\* collected tells whether collectArtifacts was called
AgentCalled ==
    [pc |-> "setup", iterations |-> 0, calls |-> <<>>, idx |-> 0, results |-> <<>>,
     toolsUsed |-> {}, text |-> "", signal |-> "none",
     llmCalls |-> 0, allTools |-> TRUE, capped |-> FALSE, jobStatus |-> "running",
     asked |-> <<>>, turn |-> <<>>, log |-> <<>>, collected |-> FALSE]

\* no shell tool executed yet, the signal of the job not set
NoProc ==
    [pc |-> "idle", tool |-> "bash", alive |-> FALSE, ignoresTerm |-> FALSE,
     killed |-> FALSE, procKilled |-> FALSE, sent |-> {}, grace |-> "none",
     aborted |-> FALSE, result |-> "none", runs |-> 0]

(***************************************************************************)
(* Values of the retry utility (part_005).  An operation fails by throwing *)
(* a value: an Error instance, a plain object with a message (as the unit  *)
(* tests throw), or a string.  status, response and inner are the numbers  *)
(* at error.status, error.response.status and error.error.status (0: no    *)
(* such property).  header is the retry-after header of the error: absent, *)
(* a number of seconds, a string of decimal digits, or an HTTP date.       *)
(***************************************************************************)
InitialDelayMs == 1000
BackoffFactor == 2
DefaultMaxDelayMs == 30000
\* Math.random() * 0.25, in hundredths
JitterPercents == {0, 12, 24}
MaxDelayChoices == {1500, DefaultMaxDelayMs}
OpValue == "success"
Null == -1
NoStatus == 0

NoHeader == [type |-> "none", sec |-> 0]
RetryAfterHeaders ==
    {NoHeader, [type |-> "number", sec |-> 0], [type |-> "number", sec |-> 2],
     [type |-> "number", sec |-> 60], [type |-> "string", sec |-> 2],
     [type |-> "date", sec |-> 0]}

\* new Error(message)
NewError(m) ==
    [kind |-> "Error", name |-> "Error", status |-> NoStatus, response |-> NoStatus,
     inner |-> NoStatus, msg |-> m, header |-> NoHeader]

NoError == [kind |-> "none", name |-> "none", status |-> NoStatus, response |-> NoStatus,
            inner |-> NoStatus, msg |-> "", header |-> NoHeader]

\* a plain object {status, message}
PlainObject(st, m) == [NewError(m) EXCEPT !.kind = "object", !.name = "none", !.status = st]

\* a thrown string
ThrownString(m) == [NewError(m) EXCEPT !.kind = "string", !.name = "none"]

\* the values an operation throws
ErrorsThrown ==
    {PlainObject(400, "Bad Request"), PlainObject(500, "Server Error"),
     NewError("fetch failed"), NewError("Custom error"),
     [NewError("The operation was aborted") EXCEPT !.name = "AbortError"],
     ThrownString("boom")}
    \cup {[NewError("rate limited") EXCEPT !.status = 429, !.header = h] :
              h \in RetryAfterHeaders}

\* The messages of the model, each with the substrings of its lower-cased
\* text that isRetryableError (part_005:60-71) or categorizeError
\* (errors.ts:40-157) looks for.  String(error) of a plain object is
\* "[object Object]".
MessageSubstrings ==
    ("Too Many Requests" :> {"too many requests"}) @@
    ("Rate limit exceeded" :> {"rate limit"}) @@
    ("rate limited" :> {"rate limit"}) @@
    ("ECONNRESET" :> {"econnreset"}) @@
    ("fetch failed" :> {"fetch failed"}) @@
    ("socket hang up" :> {"socket", "socket hang up"}) @@
    ("Network error" :> {"network"}) @@
    ("Request timed out" :> {"timed out"}) @@
    ("Unauthorized" :> {"unauthorized"}) @@
    ("Permission denied" :> {"permission denied"}) @@
    ("Not Found" :> {"not found"}) @@
    ("Invalid API key provided" :> {"invalid api key", "invalid"}) @@
    ("context length exceeded" :> {"context length"}) @@
    ("Validation failed" :> {"validation"}) @@
    ("Aborted" :> {"aborted"}) @@
    ("The operation was aborted" :> {"aborted"}) @@
    ("Bad Request" :> {}) @@
    ("Server Error" :> {}) @@
    ("Something weird happened" :> {}) @@
    ("Custom error" :> {}) @@
    ("Unknown error" :> {}) @@
    ("boom" :> {}) @@
    ("[object Object]" :> {}) @@
    ("" :> {})

\* message.toLowerCase().includes(sub)
Includes(m, sub) == sub \in MessageSubstrings[m]

\* part_005:63-68
NetworkMessages ==
    {"network", "econnreset", "econnrefused", "etimedout", "socket hang up", "fetch failed"}

\* part_005:80-105: error.status, else error.response.status, else
\* error.error.status; null for a value that is not an object
getErrorStatus(e) ==
    IF e.kind = "string" THEN Null
    ELSE IF e.status # NoStatus THEN e.status
    ELSE IF e.response # NoStatus THEN e.response
    ELSE IF e.inner # NoStatus THEN e.inner
    ELSE Null

\* error instanceof Error && error.name === "AbortError"
IsAbortError(e) == e.kind = "Error" /\ e.name = "AbortError"

\* part_005:40-74
isRetryableError(e) ==
    IF e.kind = "Error" /\ e.name = "AbortError" THEN FALSE
    ELSE IF getErrorStatus(e) = 429 THEN TRUE
    ELSE IF getErrorStatus(e) >= 500 /\ getErrorStatus(e) < 600 THEN TRUE
    ELSE IF getErrorStatus(e) >= 400 /\ getErrorStatus(e) < 500 THEN FALSE
    ELSE e.kind = "Error" /\ \E sub \in NetworkMessages : Includes(e.msg, sub)

(***************************************************************************)
(* The error taxonomy (src/common/errors.ts).                              *)
(***************************************************************************)
ErrorCategory ==
    {"rate_limit", "auth", "network", "timeout", "validation", "not_found",
     "permission", "llm_error", "tool_error", "internal", "aborted"}

\* errors.ts:36-37: err = error instanceof Error ? error : new Error(String(error))
AsError(e) ==
    IF e.kind = "Error" THEN e
    ELSE IF e.kind = "string" THEN NewError(e.msg)
    ELSE NewError("[object Object]")

AnyIncluded(m, subs) == \E sub \in subs : Includes(m, sub)

\* errors.ts:35-179, the category and the retryable flag of the result
categorizeError(e) ==
    LET err == AsError(e)
        m == err.msg
        Is(c, r) == [category |-> c, retryable |-> r]
    IN  IF err.name = "AbortError" \/ Includes(m, "aborted") THEN Is("aborted", FALSE)
        ELSE IF AnyIncluded(m, {"rate limit", "429", "too many requests"})
             THEN Is("rate_limit", TRUE)
        ELSE IF AnyIncluded(m, {"unauthorized", "401", "invalid api key", "authentication"})
             THEN Is("auth", FALSE)
        ELSE IF AnyIncluded(m, {"network", "econnreset", "econnrefused", "etimedout",
                                "socket", "fetch failed"})
             THEN Is("network", TRUE)
        ELSE IF AnyIncluded(m, {"timeout", "timed out"}) THEN Is("timeout", TRUE)
        ELSE IF AnyIncluded(m, {"permission denied", "403", "forbidden", "access denied"})
             THEN Is("permission", FALSE)
        ELSE IF AnyIncluded(m, {"not found", "404", "does not exist"})
             THEN Is("not_found", FALSE)
        ELSE IF AnyIncluded(m, {"context length", "max tokens", "content filter", "model"})
             THEN Is("llm_error", FALSE)
        ELSE IF AnyIncluded(m, {"invalid", "validation", "schema"})
             THEN Is("validation", FALSE)
        ELSE Is("internal", TRUE)

\* errors.ts:226-228
isRetryable(e) == categorizeError(e).retryable

\* errors.ts:233-246, the category and the retryable flag of the result
createError(category) ==
    [category |-> category, retryable |-> category \in {"rate_limit", "network", "timeout"}]

NoClaireError == [category |-> "none", retryable |-> FALSE]

\* the isRetryable option: the default, or the custom predicate of the unit
\* test, (err) => err.message === "Custom error"
Accepted(pred, e) ==
    IF pred = "default" THEN isRetryableError(e)
    ELSE e.kind # "string" /\ e.msg = "Custom error"

\* part_005:226-232 - lastError: the Error itself, or a new Error made of the
\* message property, or of String(error)
ToError(e) == IF e.kind = "Error" THEN e ELSE NewError(e.msg)

\* the retry-after header taken as it is, not converted to ms
getRetryAfterSeconds(e) ==
    IF e.kind = "string" THEN Null
    ELSE IF e.header.type \in {"number", "string"} /\ e.header.sec # 0
         THEN e.header.sec
         ELSE Null

\* part_005:110-143 - the retry-after header in ms: a number is taken as
\* seconds, a string is read by parseInt, anything else gives null.  A header
\* of 0 is falsy and skipped by the || chain.
getRetryAfterMs(e) ==
    IF e.kind = "string" THEN Null
    ELSE IF e.header.type \in {"number", "string"} /\ e.header.sec # 0
         THEN e.header.sec * 1000
         ELSE Null

Min(a, b) == IF a <= b THEN a ELSE b

RECURSIVE Pow(_, _)
Pow(b, n) == IF n = 0 THEN 1 ELSE b * Pow(b, n - 1)

\* Math.round of the fraction n / d (d > 0, n >= 0)
Round(n, d) == (2 * n + d) \div (2 * d)

\* part_005:167-183; pct is Math.random() * 0.25 in hundredths
calculateDelay(attempt, initialDelayMs, maxDelayMs, backoffFactor, jitter, pct) ==
    LET capped == Min(initialDelayMs * Pow(backoffFactor, attempt), maxDelayMs)
    IN  IF jitter THEN Round(capped * (100 + pct), 100) ELSE capped

NoResult == [kind |-> "none", success |-> FALSE, data |-> "", error |-> NoError,
             attempts |-> 0]
NoOptions == [maxRetries |-> 0, maxDelayMs |-> DefaultMaxDelayMs, jitter |-> TRUE,
              pred |-> "default", hasSignal |-> FALSE, orThrow |-> FALSE]

\* retry not called yet; the AbortController not triggered
NoRetry ==
    [pc |-> "idle", opts |-> NoOptions, attempt |-> 0, attempts |-> 0, calls |-> 0,
     fails |-> 0, thrown |-> NoError, lastError |-> NoError, delay |-> 0, pct |-> 0,
     aborted |-> FALSE, sigAt |-> Null, sigPc |-> "none", result |-> NoResult]

(***************************************************************************)
(* EventBus values (part_006:121-196).  subscribers is a Map from event    *)
(* type to a Set of callbacks; a Set keeps insertion order and holds a     *)
(* callback once.  entries lists the (callback, key) pairs of all Sets in  *)
(* insertion order, each with the serial number of its insertion.          *)
(***************************************************************************)
Wildcard == "*"
BusEventTypes == {"job.completed", "job.failed"}
BusKeys == BusEventTypes \cup {Wildcard}
BusHandlers == {"h1", "h2"}

\* a new EventBus (part_006:121-122), no publish call made.  running holds
\* the serials of the entries whose callback is executing; started, threw,
\* snapshot and changed record the history of the publish call.
NoBus ==
    [entries |-> <<>>, nextSerial |-> 1, pc |-> "idle", event |-> "none", payload |-> 0,
     cursor |-> 0, running |-> {}, started |-> <<>>, threw |-> {}, logged |-> 0,
     rejected |-> FALSE, snapshot |-> {}, changed |-> {}, publishes |-> 0]

(***************************************************************************)
(* Session store values (local.ts:86-103) and resolveOrCreate calls        *)
(* (part_009:32-72).  store is the Map of sessions in insertion order; a   *)
(* new session takes the uuid of the call that creates it.                 *)
(***************************************************************************)
Threads == {"t1", "t2"}
ResolveIds == 1..MaxResolves
NoSession == 0
NoResolve == [pc |-> "idle", thread |-> "none", result |-> NoSession]

\* an empty store, no resolveOrCreate call made
NoSessions == [store |-> <<>>, calls |-> [c \in ResolveIds |-> NoResolve]]

\* runWorker not yet called for the job: nothing recorded, nothing posted.
\* aborted is abortController.signal.aborted; posts lists the messages
\* posted to the user.
NoReport == [pc |-> "idle", meet |-> FALSE, aborted |-> FALSE, err |-> NoError,
             status |-> "running", summary |-> "none", posts |-> <<>>]

\* runAgentLoop not yet called: no tools resolved, no tool call executed.
\* calls lists the tool calls with their results, performed the operations
\* that were carried out.
NoRun == [pc |-> "idle", mode |-> "code", tools |-> {}, calls |-> <<>>, performed |-> {}]

\* The files at the top level of the working directory of the session that
\* the glob patterns of collectArtifacts match, by name (agent.ts:334-357)
ArtifactFiles == {"plot.png", "F0A9XEJ7V8S_scan.png", "FIG_1.png"}

Runs == 1..MaxRuns

\* no artifact registered, no runAgentLoop called, every file last modified
\* at time 0
NoArtifacts ==
    [clock |-> 0, mtime |-> [f \in ArtifactFiles |-> 0], store |-> {},
     runs |-> [r \in Runs |-> [pc |-> "idle", start |-> 0, existing |-> {},
                               files |-> {}]]]

\* two sessions, for what the scheduler does across sessions
TwoSessions == {"A", "B"}

\* nothing enqueued in either session, no worker started.  jobs is store.jobs
\* (status "none": not created), status the status of the session records,
\* entries the ActiveWorker map (NoWorker: no entry), invocations the runWorker
\* invocations with aborted the state of their AbortController, pending the
\* number of scheduleNext calls suspended in JobManager.getNext, last the
\* operation of the latest step.
NoScheduling ==
    [jobs |-> [j \in 1..MaxEnqueues |-> [status |-> "none", session |-> "A"]],
     status |-> [s \in TwoSessions |-> "idle"],
     entries |-> [s \in TwoSessions |-> NoWorker],
     invocations |-> [w \in 1..MaxInvocations |->
                         [pc |-> "unused", session |-> "A", job |-> NoJob,
                          aborted |-> FALSE]],
     pending |-> [s \in TwoSessions |-> 0],
     last |-> [op |-> "none", session |-> "A"]]

\* no error value under classification
NoClass == [pc |-> "none", e |-> NoError, status |-> Null, accepted |-> FALSE,
            claire |-> NoClaireError, created |-> NoClaireError]

Init ==
    /\ agent = AgentCalled
    /\ proc = NoProc
    /\ rt = NoRetry
    /\ cls = NoClass
    /\ bus = NoBus
    /\ sess = NoSessions
    /\ main = "running"
    /\ out = NoReport
    /\ reg = NoRun
    /\ multi = NoScheduling
    /\ art = NoArtifacts
    /\ jobs = [j \in JobIds |-> NoJobRec]
    /\ sessionStatus = [s \in Sessions |-> "idle"]
    /\ activeWorkers = [s \in Sessions |-> NoWorker]
    /\ idleTimers = [s \in Sessions |-> FALSE]
    /\ enq = [j \in JobIds |-> NoEnq]
    /\ workers = [w \in WorkerIds |-> NoWorkerRec]
    /\ ctl = [abortPc |-> "idle", session |-> "s1", cancels |-> 0,
              runningAtAbort |-> NoJob, queuedAtAbort |-> {}]
    /\ published = NoEvent

(***************************************************************************)
(* Scheduler.scheduleNext (scheduler.ts:73-109).                           *)
(***************************************************************************)
\* scheduler.ts:75 - the single-flight test made when scheduleNext is entered
HasActiveWorker(s) == activeWorkers[s] # NoWorker

\* scheduleNext without the single-flight test
ScheduleNextUnguarded(s) == findNextQueued(s)

\* scheduler.ts:75-85: what the caller of scheduleNext is left waiting for:
\* NoJob when scheduleNext returns at once, else the job JobManager.getNext found
ScheduleNextFinds(s) == IF HasActiveWorker(s) THEN NoJob ELSE findNextQueued(s)

\* the invocations of runWorker are numbered by the slots of wk that hold none
FreeSlots(wk) == {w \in WorkerIds : wk[w].pc = "unused"}
NewWorker(wk) == CHOOSE w \in FreeSlots(wk) : \A v \in FreeSlots(wk) : w <= v

\* runWorker up to its first suspension (scheduler.ts:114-127): JobManager.start
\* updates the job in the store; for a job that is no longer in the store
\* storage.jobs.update throws, so does JobManager.fail in the catch block
\* (scheduler.ts:240), and the finally block runs up to setStatus("idle")
RunWorkerBegins(s, j) ==
    IF JobExists(j)
    THEN [NoWorkerRec EXCEPT !.pc = "start", !.session = s, !.job = j]
    ELSE [NoWorkerRec EXCEPT !.pc = "arm", !.session = s, !.job = j]

\* scheduler.ts:87-108 - register the ActiveWorker, clear the idle timer and
\* call runWorker for job j; wk is the workers map without the new invocation
StartWorker(s, j, wk) ==
    /\ FreeSlots(wk) # {}
    /\ idleTimers' = [idleTimers EXCEPT ![s] = FALSE]
    /\ workers' = [wk EXCEPT ![NewWorker(wk)] = RunWorkerBegins(s, j)]
    /\ IF JobExists(j)
       THEN /\ activeWorkers' = [activeWorkers EXCEPT ![s] = NewWorker(wk)]
            /\ jobs' = [jobs EXCEPT ![j].status = "running"]
            /\ published' = NoEvent
            /\ UNCHANGED sessionStatus
       ELSE /\ activeWorkers' = [activeWorkers EXCEPT ![s] = NoWorker]
            /\ sessionStatus' = [sessionStatus EXCEPT ![s] = "idle"]
            /\ published' = NoEvent
            /\ UNCHANGED jobs

(***************************************************************************)
(* JobManager.enqueue (part_009:364-390), called by the chat handlers      *)
(* (http.ts:597) and by dispatchMeetTrigger (part_013:64).                 *)
(***************************************************************************)
\* storage.jobs.create: jobs are created in submission order
Enqueue(j, s, isMeet) ==
    /\ UNCHANGED workerVars
    /\ enq[j].pc = "idle"
    /\ \A k \in JobIds : k < j => enq[k].pc # "idle"
    /\ jobs' = [jobs EXCEPT ![j] = [status |-> "queued", session |-> s,
                                    meet |-> isMeet, t |-> j, summary |-> NoSummary]]
    /\ enq' = [enq EXCEPT ![j].pc = "publish"]
    /\ published' = NoEvent
    /\ UNCHANGED <<sessionStatus, activeWorkers, idleTimers, workers, ctl>>

\* Bus.publish(job.queued) -> scheduleNext (scheduler.ts:56-58, 73-85)
EnqueuePublish(j) ==
    /\ UNCHANGED workerVars
    /\ enq[j].pc = "publish"
    /\ LET n == ScheduleNextFinds(jobs[j].session) IN
         enq' = [enq EXCEPT ![j] = IF n = NoJob THEN [pc |-> "done", snJob |-> NoJob]
                                   ELSE [pc |-> "set", snJob |-> n]]
    /\ published' = Event("job.queued", j)
    /\ UNCHANGED <<jobs, sessionStatus, activeWorkers, idleTimers, workers, ctl>>

\* JobManager.getNext has resolved: scheduler.ts:87-108
EnqueueSet(j) ==
    /\ UNCHANGED workerVars
    /\ enq[j].pc = "set"
    /\ StartWorker(jobs[j].session, enq[j].snJob, workers)
    /\ enq' = [enq EXCEPT ![j] = [pc |-> "done", snJob |-> NoJob]]
    /\ UNCHANGED ctl

(***************************************************************************)
(* Scheduler.runWorker (scheduler.ts:114-289).                             *)
(***************************************************************************)
\* where a worker continues after the scheduleNext call made at stage pc
AfterPublish(pc) ==
    CASE pc = "completePub" -> "post"
      [] pc = "abortFailPub" -> "finally"
      [] pc = "errFailPub" -> "finally"
      [] pc = "arm" -> "unused"

\* the worker's record once the scheduleNext call made at its stage returns;
\* a runWorker invocation that has returned leaves nothing behind
Returned(r) ==
    IF AfterPublish(r.pc) = "unused" THEN NoWorkerRec
    ELSE [r EXCEPT !.pc = AfterPublish(r.pc), !.snJob = NoJob, !.seen = "none"]

\* a worker that goes on without calling scheduleNext
ContinuesWithoutScheduling(w) == Returned(workers[w])

\* a handler of job.completed / job.failed, or the finally block, calls scheduleNext
CallScheduleNext(w) ==
    LET n == ScheduleNextFinds(workers[w].session) IN
      IF n = NoJob THEN Returned(workers[w]) ELSE [workers[w] EXCEPT !.snJob = n]

Resumable(w, pc) == workers[w].pc = pc /\ workers[w].snJob = NoJob

\* JobManager.fail (part_009:436-444): the store update; storage.jobs.update
\* throws for a job that is not in the store
JobFailed(j, summary) ==
    [jobs EXCEPT ![j].status = "failed", ![j].summary = summary]

\* an error handling that takes every error for a cancellation
ThrownAsCancelled(w, inner) ==
    /\ jobs' = JobFailed(workers[w].job, AbortedSummary)
    /\ workers' = [workers EXCEPT ![w].pc = "abortFailPub"]

\* scheduler.ts:218-229 and 231-240: an error thrown inside the inner try is
\* a cancellation when the signal is set, and is otherwise rethrown to the
\* outer catch; either way JobManager.fail is called next
Thrown(w, inner) ==
    LET j == workers[w].job
        cancel == inner /\ Aborted(w)
    IN  /\ jobs' = JobFailed(j, IF cancel THEN AbortedSummary ELSE ErrorSummary)
        /\ workers' = [workers EXCEPT ![w].pc = IF cancel THEN "abortFailPub"
                                                ELSE "errFailPub"]

\* JobManager.start resumes: job.started is published (part_009:402-408), then
\* SessionManager.setStatus(sessionId, "running") (scheduler.ts:130)
WStarted(w) ==
    /\ UNCHANGED workerVars
    /\ Resumable(w, "start")
    /\ sessionStatus' = [sessionStatus EXCEPT ![workers[w].session] = "running"]
    /\ workers' = [workers EXCEPT ![w].pc = "gather"]
    /\ published' = Event("job.started", workers[w].job)
    /\ UNCHANGED <<jobs, activeWorkers, idleTimers, enq, ctl>>

\* scheduler.ts:133-187: context gathering and attachment processing either
\* succeed (the runtime timeout is armed and runAgentLoop called) or throw
WGather(w, ok) ==
    /\ UNCHANGED workerVars
    /\ Resumable(w, "gather")
    /\ IF ok THEN /\ workers' = [workers EXCEPT ![w].pc = "loop"]
                  /\ UNCHANGED jobs
       ELSE Thrown(w, FALSE)
    /\ published' = NoEvent
    /\ UNCHANGED <<sessionStatus, activeWorkers, idleTimers, enq, ctl>>

\* runAgentLoop (agent.ts:219-308) seen from the scheduler: while iterating
\* the next cancellation check or abort-aware call throws once the signal is
\* set; otherwise the loop ends (final answer or iteration cap) or a call throws
WLoop(w, ok) ==
    /\ UNCHANGED workerVars
    /\ Resumable(w, "loop")
    /\ Aborted(w) => ~ok
    /\ IF ok THEN /\ workers' = [workers EXCEPT ![w].pc = "collect"]
                  /\ UNCHANGED jobs
       ELSE Thrown(w, TRUE)
    /\ published' = NoEvent
    /\ UNCHANGED <<sessionStatus, activeWorkers, idleTimers, enq, ctl>>

\* collectArtifacts and the return of the AgentResult (agent.ts:310-318), where
\* no cancellation check is made; then JobManager.complete (part_009:414-422),
\* the unconditional store update
WCollect(w, ok) ==
    /\ UNCHANGED workerVars
    /\ Resumable(w, "collect")
    /\ IF ok THEN /\ jobs' = [jobs EXCEPT ![workers[w].job].status = "succeeded",
                                          ![workers[w].job].summary = ResultSummary]
                  /\ workers' = [workers EXCEPT ![w].pc = "completePub",
                                                 ![w].seen = jobs[workers[w].job].status]
       ELSE Thrown(w, TRUE)
    /\ published' = NoEvent
    /\ UNCHANGED <<sessionStatus, activeWorkers, idleTimers, enq, ctl>>

\* JobManager.complete (part_009:424-430): Bus.publish(job.completed), whose
\* handler calls scheduleNext (scheduler.ts:61-63); then postResults is called
WCompletePub(w) ==
    /\ UNCHANGED workerVars
    /\ Resumable(w, "completePub")
    /\ workers' = [workers EXCEPT ![w] = CallScheduleNext(w)]
    /\ published' = Event("job.completed", workers[w].job)
    /\ UNCHANGED <<jobs, sessionStatus, activeWorkers, idleTimers, enq, ctl>>

\* the finally block up to its first suspension (scheduler.ts:272-277)
Finally(w) ==
    /\ activeWorkers' = [activeWorkers EXCEPT ![workers[w].session] = NoWorker]
    /\ sessionStatus' = [sessionStatus EXCEPT ![workers[w].session] = "idle"]
    /\ workers' = [workers EXCEPT ![w].pc = "arm"]

\* postResults (scheduler.ts:206-216) returns, or postToThread throws because
\* Slack failed
WPost(w, ok) ==
    /\ UNCHANGED workerVars
    /\ Resumable(w, "post")
    /\ IF ok THEN /\ Finally(w)
                  /\ UNCHANGED jobs
       ELSE /\ Thrown(w, TRUE)
            /\ UNCHANGED <<activeWorkers, sessionStatus>>
    /\ published' = NoEvent
    /\ UNCHANGED <<idleTimers, enq, ctl>>

\* JobManager.fail (part_009:446-452): Bus.publish(job.failed), whose handler
\* calls scheduleNext (scheduler.ts:65-67); then the reaction is updated and
\* the error message posted (scheduler.ts:223-225, 243-270)
WFailPub(w) ==
    /\ UNCHANGED workerVars
    /\ workers[w].pc \in {"abortFailPub", "errFailPub"} /\ workers[w].snJob = NoJob
    /\ workers' = [workers EXCEPT ![w] = CallScheduleNext(w)]
    /\ published' = Event("job.failed", workers[w].job)
    /\ UNCHANGED <<jobs, sessionStatus, activeWorkers, idleTimers, enq, ctl>>

\* the Slack calls after JobManager.fail return or throw: scheduler.ts:272-277
WFinally(w) ==
    /\ UNCHANGED workerVars
    /\ Resumable(w, "finally")
    /\ Finally(w)
    /\ published' = NoEvent
    /\ UNCHANGED <<jobs, idleTimers, enq, ctl>>

\* scheduler.ts:280-287: arm the idle timer, call scheduleNext
WArm(w) ==
    /\ UNCHANGED workerVars
    /\ Resumable(w, "arm")
    /\ idleTimers' = [idleTimers EXCEPT ![workers[w].session] = TRUE]
    /\ workers' = [workers EXCEPT ![w] = CallScheduleNext(w)]
    /\ published' = NoEvent
    /\ UNCHANGED <<jobs, sessionStatus, activeWorkers, enq, ctl>>

\* JobManager.getNext has resolved inside a scheduleNext called by a worker
\* (scheduler.ts:87-108); the caller then continues
WSchedSet(w) ==
    /\ UNCHANGED workerVars
    /\ workers[w].pc # "unused" /\ workers[w].snJob # NoJob
    /\ StartWorker(workers[w].session, workers[w].snJob,
                   [workers EXCEPT ![w] = Returned(@)])
    /\ UNCHANGED <<enq, ctl>>

\* the runtime timeout armed at scheduler.ts:184-187 fires
RuntimeTimeout(w) ==
    /\ UNCHANGED workerVars
    /\ workers[w].pc \in {"loop", "collect"}
    /\ ctl.cancels < MaxCancels
    /\ ~Aborted(w)
    /\ workers' = [workers EXCEPT ![w].signal = "timeout"]
    /\ ctl' = [ctl EXCEPT !.cancels = @ + 1]
    /\ published' = NoEvent
    /\ UNCHANGED <<jobs, sessionStatus, activeWorkers, idleTimers, enq>>

\* an idle timeout armed at scheduler.ts:280-283 fires
IdleTimeout(s) ==
    /\ UNCHANGED workerVars
    /\ idleTimers[s]
    /\ idleTimers' = [idleTimers EXCEPT ![s] = FALSE]
    /\ published' = NoEvent
    /\ UNCHANGED <<jobs, sessionStatus, activeWorkers, enq, workers, ctl>>

(***************************************************************************)
(* SessionManager.abort / stop (part_009:329-348) and Scheduler.abort /    *)
(* stop (scheduler.ts:468-481).                                            *)
(***************************************************************************)
\* Scheduler.abort: trigger the AbortController of the session's ActiveWorker
\* (AbortController.abort does nothing on a signal that is already set)
SchedulerAbort(s, cause) ==
    IF HasActiveWorker(s) /\ ~Aborted(activeWorkers[s])
    THEN [workers EXCEPT ![activeWorkers[s]].signal = cause]
    ELSE workers

\* the job of the session's ActiveWorker, if JobManager.start has marked it
\* running and it has not ended yet
RunningJob(s) ==
    IF /\ HasActiveWorker(s)
       /\ jobs[workers[activeWorkers[s]].job].status = "running"
    THEN workers[activeWorkers[s]].job
    ELSE NoJob

\* Bus.publish(session.abort)
AbortSignal(s) ==
    /\ UNCHANGED workerVars
    /\ ctl.abortPc = "idle" /\ ctl.cancels < MaxCancels
    /\ workers' = SchedulerAbort(s, "abort")
    /\ ctl' = [ctl EXCEPT !.abortPc = "clear", !.session = s, !.cancels = @ + 1,
                          !.runningAtAbort = RunningJob(s),
                          !.queuedAtAbort = IF RunningJob(s) = NoJob THEN {}
                                            ELSE QueuedJobs(s)]
    /\ published' = Event("session.abort", NoJob)
    /\ UNCHANGED <<jobs, sessionStatus, activeWorkers, idleTimers, enq>>

\* storage.jobs.clearQueued
AbortClear ==
    /\ UNCHANGED workerVars
    /\ ctl.abortPc = "clear"
    /\ jobs' = clearQueued(ctl.session)
    /\ ctl' = [ctl EXCEPT !.abortPc = "status"]
    /\ published' = NoEvent
    /\ UNCHANGED <<sessionStatus, activeWorkers, idleTimers, enq, workers>>

\* storage.sessions.update(sessionId, {status: "aborted"})
AbortStatus ==
    /\ UNCHANGED workerVars
    /\ ctl.abortPc = "status"
    /\ sessionStatus' = [sessionStatus EXCEPT ![ctl.session] = "aborted"]
    /\ ctl' = [ctl EXCEPT !.abortPc = "idle"]
    /\ published' = NoEvent
    /\ UNCHANGED <<jobs, activeWorkers, idleTimers, enq, workers>>

\* SessionManager.stop: Bus.publish(session.stop) -> Scheduler.stop
Stop(s) ==
    /\ UNCHANGED workerVars
    /\ ctl.cancels < MaxCancels
    /\ workers' = SchedulerAbort(s, "stop")
    /\ ctl' = [ctl EXCEPT !.cancels = @ + 1]
    /\ published' = Event("session.stop", NoJob)
    /\ UNCHANGED <<jobs, sessionStatus, activeWorkers, idleTimers, enq>>

Next ==
    \/ \E j \in JobIds, s \in Sessions, m \in BOOLEAN : Enqueue(j, s, m)
    \/ \E j \in JobIds : EnqueuePublish(j)
    \/ \E j \in JobIds : EnqueueSet(j)
    \/ \E w \in WorkerIds : WStarted(w)
    \/ \E w \in WorkerIds, ok \in BOOLEAN : WGather(w, ok)
    \/ \E w \in WorkerIds, ok \in BOOLEAN : WLoop(w, ok)
    \/ \E w \in WorkerIds, ok \in BOOLEAN : WCollect(w, ok)
    \/ \E w \in WorkerIds : WCompletePub(w)
    \/ \E w \in WorkerIds, ok \in BOOLEAN : WPost(w, ok)
    \/ \E w \in WorkerIds : WFailPub(w)
    \/ \E w \in WorkerIds : WFinally(w)
    \/ \E w \in WorkerIds : WArm(w)
    \/ \E w \in WorkerIds : WSchedSet(w)
    \/ \E w \in WorkerIds : RuntimeTimeout(w)
    \/ \E s \in Sessions : IdleTimeout(s)
    \/ \E s \in Sessions : AbortSignal(s)
    \/ AbortClear
    \/ AbortStatus
    \/ \E s \in Sessions : Stop(s)

Spec == Init /\ [][Next]_vars

\* a suspended task resumes: the store, the bus or Slack has answered or
\* failed, a job run has come to its end (the agent loop returned or threw)
TaskStep ==
    \/ \E j \in JobIds : EnqueuePublish(j) \/ EnqueueSet(j)
    \/ \E w \in WorkerIds :
          \/ WStarted(w) \/ WCompletePub(w) \/ WFailPub(w) \/ WFinally(w)
          \/ WArm(w) \/ WSchedSet(w)
          \/ \E ok \in BOOLEAN : WGather(w, ok) \/ WLoop(w, ok) \/ WCollect(w, ok)
                                    \/ WPost(w, ok)
    \/ AbortClear
    \/ AbortStatus

\* The event loop keeps running: as long as some suspended task can resume,
\* one eventually does.  Requests of users (enqueue, abort, stop) and timers
\* are not forced to happen.
TasksResume == WF_vars(TaskStep)

\* The steps of the scheduler that bear on whether a queued job is started.
\* The kind of a job matters to the scheduler only through the order of
\* findNextQueued (local.ts:136-141): a first job of either kind followed by
\* chat jobs gives both orders, the later job sorting after the first (chat,
\* chat) and before it (Meet, chat).  The callback of the idle timer
\* (scheduler.ts:280-283) only deletes its own entry of idleTimers, which the
\* scheduler never reads, and is left out.
NextFair ==
    \/ \E j \in JobIds, s \in Sessions :
          \E m \in (IF j = 1 THEN BOOLEAN ELSE {FALSE}) : Enqueue(j, s, m)
    \/ \E j \in JobIds : EnqueuePublish(j)
    \/ \E j \in JobIds : EnqueueSet(j)
    \/ \E w \in WorkerIds : WStarted(w)
    \/ \E w \in WorkerIds, ok \in BOOLEAN : WGather(w, ok)
    \/ \E w \in WorkerIds, ok \in BOOLEAN : WLoop(w, ok)
    \/ \E w \in WorkerIds, ok \in BOOLEAN : WCollect(w, ok)
    \/ \E w \in WorkerIds : WCompletePub(w)
    \/ \E w \in WorkerIds, ok \in BOOLEAN : WPost(w, ok)
    \/ \E w \in WorkerIds : WFailPub(w)
    \/ \E w \in WorkerIds : WFinally(w)
    \/ \E w \in WorkerIds : WArm(w)
    \/ \E w \in WorkerIds : WSchedSet(w)
    \/ \E w \in WorkerIds : RuntimeTimeout(w)
    \/ \E s \in Sessions : AbortSignal(s)
    \/ AbortClear
    \/ AbortStatus
    \/ \E s \in Sessions : Stop(s)

FairSpec == Init /\ [][NextFair]_vars /\ TasksResume

(***************************************************************************)
(* runAgentLoop (agent.ts:172-318), in detail.  The call is at             *)
(*   "setup"     suspended in fs.mkdir, detectGPU or ensureProfile         *)
(*   "llm"       suspended in callLLM                                      *)
(*   "executing" suspended in Bus.publish(tool.executing) for calls[idx]   *)
(*   "tool"      suspended in ToolRegistry.execute for calls[idx]          *)
(*   "completed" suspended in Bus.publish(tool.completed) for calls[idx]   *)
(*   "collect"   the loop left, suspended in collectArtifacts              *)
(*   "returned"  returned its AgentResult                                  *)
(*   "thrown"    ended with an error; text then tells which                *)
(* signal is "none" while the AbortSignal of the job is not set, and else  *)
(* the position at which the call was when it was set.                     *)
(***************************************************************************)
ToolNames == {"bash", "read"}

\* the toolCalls of an LLM response
ToolCallLists ==
    UNION {[1..n -> ToolNames] : n \in 0..MaxToolCalls}

\* the error of a ToolResult (part_011:178-204), "none" when the tool returned
\* a result of its own
ExecuteErrors == {"none", "Unknown tool", "Invalid input", "Tool execution error"}

\* agent.ts:287-296 - the tool_result block of a call: Error: <error> in front
\* of the output when the result has an error
ToolResult(name, error) == <<name, error>>

\* agent.ts:246-262 - the assistant message, one tool_use block per tool call
AssistantTurn(toolCalls) == [role |-> "assistant", content |-> toolCalls]

\* agent.ts:307 - the user message that carries the tool results
UserTurn(results) == [role |-> "user", content |-> results]

AgentAborted == agent.signal # "none"

AgentRunning == agent.pc \notin {"returned", "thrown"}

\* abort.throwIfAborted() (agent.ts:220, 268) and the errors of callLLM
AgentThrows(a, why) == [a EXCEPT !.pc = "thrown", !.text = why]

\* a loop test that lets one more iteration through
LoopTestInclusive(a) == a.iterations <= MaxIterations

\* agent.ts:219 - while (iterations < config.MAX_AGENT_ITERATIONS)
LoopTest(a) == a.iterations < MaxIterations

\* agent.ts:219-226 - the loop test, the cancellation check at the top of an
\* iteration, and the call of callLLM
LoopTop(a) ==
    IF LoopTest(a)
    THEN IF a.signal # "none" THEN AgentThrows(a, "AbortError")
         ELSE [a EXCEPT !.pc = "llm", !.iterations = @ + 1, !.calls = <<>>,
                        !.idx = 0, !.results = <<>>, !.llmCalls = @ + 1]
    ELSE [a EXCEPT !.pc = "collect", !.calls = <<>>, !.idx = 0, !.results = <<>>,
                   !.capped = TRUE]

\* agent.ts:267-273 - the cancellation check before tool call i, then
\* toolsUsed.add and Bus.publish(tool.executing)
NextToolCall(a, i) ==
    IF a.signal # "none" THEN AgentThrows(a, "AbortError")
    ELSE [a EXCEPT !.pc = "executing", !.idx = i,
                   !.toolsUsed = @ \cup {a.calls[i]},
                   !.log = Append(@, <<"tool.executing", i, a.calls[i]>>)]

\* fs.mkdir, detectGPU and ensureProfile are done (agent.ts:176-216)
AgentSetup ==
    /\ agent.pc = "setup"
    /\ agent' = LoopTop(agent)
    /\ UNCHANGED notAgent

\* callLLM returns a response (agent.ts:226-265); callLLM is given the signal
\* and does not return a response once the signal is set
LLMReturns(toolCalls, stopReason, text) ==
    /\ agent.pc = "llm"
    /\ ~AgentAborted
    /\ LET a == [agent EXCEPT !.text = text,
                              !.allTools = @ /\ Len(toolCalls) > 0
                                             /\ stopReason # "end_turn",
                              !.asked = toolCalls, !.turn = <<>>, !.log = <<>>] IN
         agent' = IF Len(toolCalls) = 0 \/ stopReason = "end_turn"
                  THEN [a EXCEPT !.pc = "collect"]
                  ELSE NextToolCall([a EXCEPT !.calls = toolCalls,
                                              !.turn = <<AssistantTurn(toolCalls)>>], 1)
    /\ UNCHANGED notAgent

\* callLLM throws: retryOrThrow gave up, or the signal was set (llm.ts:125-140,
\* part_005:209-215, 290-295)
LLMThrows ==
    /\ agent.pc = "llm"
    /\ agent' = AgentThrows(agent, IF AgentAborted THEN "AbortError" ELSE "LLMError")
    /\ UNCHANGED notAgent

\* Bus.publish(tool.executing) has returned: ToolRegistry.execute is called
\* (agent.ts:273-284)
ToolExecutingPublished ==
    /\ agent.pc = "executing"
    /\ agent' = [agent EXCEPT !.pc = "tool"]
    /\ UNCHANGED notAgent

\* a push that puts the new tool result in front
PushResultFirst(results, name, error) == <<ToolResult(name, error)>> \o results

\* agent.ts:292-296 - toolResults.push({type: "tool_result", ...})
PushResult(results, name, error) == Append(results, ToolResult(name, error))

\* a failed execution that is thrown on to the loop
AfterExecuteThrows(a, error) ==
    IF error = "none"
    THEN [a EXCEPT !.pc = "completed",
                   !.results = PushResult(@, a.calls[a.idx], error),
                   !.log = Append(@, <<"tool.completed", a.idx, a.calls[a.idx]>>)]
    ELSE AgentThrows(a, error)

\* agent.ts:286-303 - the result of ToolRegistry.execute, an error included,
\* is pushed to toolResults and tool.completed is published
AfterExecute(a, error) ==
    [a EXCEPT !.pc = "completed",
              !.results = PushResult(@, a.calls[a.idx], error),
              !.log = Append(@, <<"tool.completed", a.idx, a.calls[a.idx]>>)]

\* ToolRegistry.execute returns a result: the result of the tool, or one with
\* the error of a tool that is not among the tools, of an input that the
\* schema rejects, or of a tool that threw (part_011:171-206)
ToolReturns(error) ==
    /\ agent.pc = "tool"
    /\ agent' = AfterExecute(agent, error)
    /\ UNCHANGED notAgent

\* Bus.publish(tool.completed) has returned: the next tool call, or the next
\* iteration (agent.ts:267, 306-308, 219)
ToolCompletedPublished ==
    /\ agent.pc = "completed"
    /\ agent' = IF agent.idx < Len(agent.calls)
                 THEN NextToolCall(agent, agent.idx + 1)
                 ELSE LoopTop([agent EXCEPT !.turn = Append(@, UserTurn(agent.results))])
    /\ UNCHANGED notAgent

\* collectArtifacts is done; the AgentResult is returned (agent.ts:311-317)
ArtifactsCollected ==
    /\ agent.pc = "collect"
    /\ agent' = [agent EXCEPT !.pc = "returned", !.collected = TRUE,
                              !.text = IF @ = "" THEN "Task completed." ELSE @]
    /\ UNCHANGED notAgent

\* the AbortController of the job is triggered (scheduler.ts:184-187, 468-481)
\* while runAgentLoop is in progress
AgentSignal ==
    /\ AgentRunning
    /\ ~AgentAborted
    /\ agent' = [agent EXCEPT !.signal = agent.pc]
    /\ UNCHANGED notAgent

\* runWorker after runAgentLoop (scheduler.ts:190-202, 218-240): a returned
\* AgentResult is handed to JobManager.complete, an error to JobManager.fail
RunRecorded ==
    /\ ~AgentRunning
    /\ agent.jobStatus = "running"
    /\ agent' = [agent EXCEPT !.jobStatus = IF agent.pc = "returned" THEN "succeeded"
                                            ELSE "failed"]
    /\ UNCHANGED notAgent

NextAgent ==
    \/ AgentSetup
    \/ \E c \in ToolCallLists, r \in {"end_turn", "tool_use"}, t \in {"", "answer"} :
          LLMReturns(c, r, t)
    \/ LLMThrows
    \/ ToolExecutingPublished
    \/ \E e \in ExecuteErrors : ToolReturns(e)
    \/ ToolCompletedPublished
    \/ ArtifactsCollected
    \/ AgentSignal
    \/ RunRecorded

SpecAgent == Init /\ [][NextAgent]_vars

(***************************************************************************)
(* BashTool.execute (part_010:23-119) and runGit (tools/git.ts:39-73): one *)
(* child process per execution.  The execution is at                       *)
(*   "idle"      not called                                                *)
(*   "running"   the child is spawned, the returned promise is pending     *)
(*   "resolved"  the promise is resolved with result                       *)
(* alive: the child has not exited (the ChildProcess still has its         *)
(* handle); ignoresTerm: the command does not exit on SIGTERM; killed: the *)
(* local variable of BashTool.execute; procKilled: ChildProcess.killed,    *)
(* which Node sets when kill() has delivered a signal, not when the child  *)
(* has exited; sent: the signals delivered to the child; grace: the 5000   *)
(* ms after the abort handler ran ("armed" while they last), at the end of *)
(* which the timer set by BashTool's handler fires (runGit sets no timer); *)
(* aborted: the AbortSignal of the job.                                    *)
(***************************************************************************)
ShellTools == {"bash", "git"}

\* ChildProcess.kill(sig): delivers sig and sets .killed when the child still
\* has its handle, and does nothing otherwise
Kill(p, sig) ==
    IF p.alive THEN [p EXCEPT !.sent = @ \cup {sig}, !.procKilled = TRUE] ELSE p

\* the execute call of a shell tool up to the pending promise: chat mode
\* refuses bash (part_010:24-29); spawn and ctx.abort.addEventListener
\* (part_010:39-61, git.ts:44-59).  A listener added to a signal that is
\* already set is never called.
ToolStart(tool, chat, ignores) ==
    /\ proc.pc = "idle"
    /\ proc' = IF tool = "bash" /\ chat
               THEN [proc EXCEPT !.pc = "resolved", !.tool = tool, !.result = "refused",
                                 !.runs = @ + 1]
               ELSE [proc EXCEPT !.pc = "running", !.tool = tool, !.alive = TRUE,
                                 !.ignoresTerm = ignores, !.killed = FALSE,
                                 !.procKilled = FALSE, !.sent = {}, !.result = "none",
                                 !.runs = @ + 1]
    /\ UNCHANGED notProc

\* the signal of the job is set (abortController.abort()); while the promise
\* is pending the abortHandler runs (part_010:51-59, git.ts:56-58)
ToolAbort ==
    /\ ~proc.aborted
    /\ proc' = IF proc.pc = "running"
               THEN [Kill(proc, "SIGTERM") EXCEPT !.aborted = TRUE, !.grace = "armed",
                                                  !.killed = (proc.tool = "bash")]
               ELSE [proc EXCEPT !.aborted = TRUE]
    /\ UNCHANGED notProc

\* 5000 ms after the abortHandler ran: the timer set by BashTool's handler
\* fires (part_010:54-58); runGit's handler has set none (git.ts:56-58)
GraceElapses ==
    /\ proc.grace = "armed"
    /\ proc' = IF proc.tool = "bash" /\ ~proc.procKilled
               THEN [Kill(proc, "SIGKILL") EXCEPT !.grace = "elapsed"]
               ELSE [proc EXCEPT !.grace = "elapsed"]
    /\ UNCHANGED notProc

\* the timeout option of spawn (part_010:47): Node calls kill("SIGTERM")
SpawnTimeout ==
    /\ proc.pc = "running" /\ proc.tool = "bash"
    /\ "SIGTERM" \notin proc.sent
    /\ proc' = Kill(proc, "SIGTERM")
    /\ UNCHANGED notProc

\* the child must exit: it was sent SIGKILL, or SIGTERM and does not ignore it
MustExit(p) == "SIGKILL" \in p.sent \/ ("SIGTERM" \in p.sent /\ ~p.ignoresTerm)

\* the child exits, by itself with exit code 0 (ok) or another code, or by a
\* signal, and the close handler resolves the promise (part_010:86-109,
\* git.ts:69-72)
ChildCloses(ok) ==
    /\ proc.pc = "running" /\ proc.alive
    /\ MustExit(proc) => ~ok
    /\ proc' = [proc EXCEPT !.pc = "resolved", !.alive = FALSE,
                            !.result = IF proc.tool = "bash" /\ proc.killed
                                       THEN "Command was aborted"
                                       ELSE IF ok THEN "ok" ELSE "exit code"]
    /\ UNCHANGED notProc

\* the agent loop goes on to its next shell tool call, past the
\* cancellation check before it (agent.ts:267-268)
ToolDone ==
    /\ proc.pc = "resolved"
    /\ ~proc.aborted
    /\ proc.runs < MaxToolRuns
    /\ proc' = [proc EXCEPT !.pc = "idle"]
    /\ UNCHANGED notProc

NextTool ==
    \/ \E t \in ShellTools, chat \in BOOLEAN, ignores \in BOOLEAN : ToolStart(t, chat, ignores)
    \/ ToolAbort
    \/ GraceElapses
    \/ SpawnTimeout
    \/ \E ok \in BOOLEAN : ChildCloses(ok)
    \/ ToolDone

SpecTool == Init /\ [][NextTool]_vars

(***************************************************************************)
(* retry and retryOrThrow (part_005:188-298).  The call is at              *)
(*   "idle"   not called                                                   *)
(*   "op"     suspended in await fn()                                      *)
(*   "sleep"  suspended in await sleep(delay, signal)                      *)
(*   "done"   returned (or, for retryOrThrow, returned or thrown): result  *)
(* calls counts the invocations of fn, fails its failures; thrown is the   *)
(* value of the last failure; sigAt and sigPc are the value of calls and   *)
(* the position of the call at the moment the signal was set.              *)
(***************************************************************************)
RetryOptions ==
    [maxRetries : 0..MaxRetriesOption, maxDelayMs : MaxDelayChoices, jitter : BOOLEAN,
     pred : {"default", "custom"}, hasSignal : BOOLEAN, orThrow : BOOLEAN]

\* signal?.aborted
SignalAborted(r) == r.opts.hasSignal /\ r.aborted

Failure(err, n) == [kind |-> "result", success |-> FALSE, data |-> "", error |-> err,
                    attempts |-> n]
Success(n) == [kind |-> "result", success |-> TRUE, data |-> OpValue, error |-> NoError,
               attempts |-> n]

\* retry returns res; retryOrThrow (part_005:290-298) returns the data of a
\* success and throws the error of a failure
Finish(r, res) ==
    [r EXCEPT !.pc = "done",
              !.result = IF ~r.opts.orThrow THEN res
                         ELSE IF res.success THEN [res EXCEPT !.kind = "returned"]
                         ELSE [res EXCEPT !.kind = "thrown"]]

\* attempts counted from 0
AttemptsZeroBased(attempt) == attempt

\* part_005:207 - attempts = attempt + 1
AttemptsOf(attempt) == attempt + 1

\* part_005:206-219 - the loop test, then one pass of the loop up to await fn()
Attempt(r) ==
    IF r.attempt <= r.opts.maxRetries
    THEN LET a == [r EXCEPT !.attempts = AttemptsOf(r.attempt)] IN
           IF SignalAborted(a) THEN Finish(a, Failure(NewError("Aborted"), a.attempts))
           ELSE [a EXCEPT !.pc = "op", !.calls = @ + 1]
    ELSE Finish(r, Failure(IF r.lastError = NoError THEN NewError("Unknown error")
                           ELSE r.lastError, r.attempts))

\* a test that gives up one attempt early
GivesUpEarly(attempt, maxRetries, accepted) == attempt + 1 >= maxRetries \/ ~accepted

\* a test that retries whatever the error is
GivesUpWhenExhausted(attempt, maxRetries, accepted) == attempt >= maxRetries

\* part_005:236 - if (attempt >= maxRetries || !isRetryable(error))
GivesUp(attempt, maxRetries, accepted) == attempt >= maxRetries \/ ~accepted

\* part_005:249-264 - the wait before the next attempt
WaitFor(r, e, pct) ==
    IF getRetryAfterMs(e) # Null /\ getRetryAfterMs(e) > 0
    THEN Min(getRetryAfterMs(e), r.opts.maxDelayMs)
    ELSE calculateDelay(r.attempt, InitialDelayMs, r.opts.maxDelayMs, BackoffFactor,
                        r.opts.jitter, pct)

\* a sleep that the signal does not end
SleepIgnoresSignal(r) == [r EXCEPT !.aborted = TRUE, !.sigAt = r.calls, !.sigPc = r.pc]

\* part_005:155-158 - the abort listener of sleep rejects, retry returns
\* (part_005:267-276)
SleepAborted(r) ==
    Finish([r EXCEPT !.aborted = TRUE, !.sigAt = r.calls, !.sigPc = r.pc],
           Failure(NewError("Aborted"), r.attempts))

\* retry(fn, options) or retryOrThrow(fn, options) is called
RetryCall(o) ==
    /\ rt.pc = "idle"
    /\ rt' = Attempt([rt EXCEPT !.opts = o])
    /\ UNCHANGED notRetry

\* fn() resolves (part_005:219-224)
OpSucceeds ==
    /\ rt.pc = "op"
    /\ rt' = Finish(rt, Success(rt.attempts))
    /\ UNCHANGED notRetry

\* fn() rejects with e (part_005:225-276): give up, or compute the wait and
\* call sleep, which rejects at once when the signal is already set
OpFails(e, pct) ==
    /\ rt.pc = "op"
    /\ LET r == [rt EXCEPT !.fails = @ + 1, !.thrown = e, !.lastError = ToError(e)] IN
         rt' = IF GivesUp(r.attempt, r.opts.maxRetries, Accepted(r.opts.pred, e))
               THEN Finish(r, Failure(r.lastError, r.attempts))
               ELSE IF SignalAborted(r)
                    THEN Finish(r, Failure(NewError("Aborted"), r.attempts))
                    ELSE [r EXCEPT !.pc = "sleep", !.delay = WaitFor(r, e, pct),
                                   !.pct = pct]
    /\ UNCHANGED notRetry

\* the timer of sleep fires (part_005:153): attempt++ and the next pass
SleepEnds ==
    /\ rt.pc = "sleep"
    /\ rt' = Attempt([rt EXCEPT !.attempt = @ + 1])
    /\ UNCHANGED notRetry

\* the AbortController is triggered, before the call or during it
RetryAbort ==
    /\ ~rt.aborted
    /\ rt.pc # "done"
    /\ rt' = IF rt.pc = "sleep" /\ rt.opts.hasSignal THEN SleepAborted(rt)
              ELSE [rt EXCEPT !.aborted = TRUE, !.sigAt = rt.calls, !.sigPc = rt.pc]
    /\ UNCHANGED notRetry

NextRetry ==
    \/ \E o \in RetryOptions : RetryCall(o)
    \/ OpSucceeds
    \/ \E e \in ErrorsThrown, pct \in JitterPercents : OpFails(e, pct)
    \/ SleepEnds
    \/ RetryAbort

SpecRetry == Init /\ [][NextRetry]_vars

(***************************************************************************)
(* What runWorker reports of one job (scheduler.ts:114-289): the job       *)
(* record it writes and the messages it posts.  out.pc is                  *)
(*   "idle"     runWorker not called                                       *)
(*   "gather"   gathering context (scheduler.ts:133-187)                   *)
(*   "loop"     awaiting runAgentLoop (scheduler.ts:191-197)               *)
(*   "post"     awaiting postResults (scheduler.ts:206)                    *)
(*   "errPost"  in the outer catch, about to post (scheduler.ts:243-270)   *)
(*   "finally"  before the finally block (scheduler.ts:272)                *)
(*   "done"     the finally block has run                                  *)
(***************************************************************************)
ReportErrors ==
    {[NewError("The operation was aborted") EXCEPT !.name = "AbortError"],
     NewError("fetch failed"), NewError("Something weird happened"),
     NewError("Rate limit exceeded"), NewError("Aborted"), ThrownString("boom")}

\* formatErrorForSlack (errors.ts:184-200): "*Error:* " and the user message
\* of the category
formatErrorForSlack(e) == [format |-> "error", category |-> categorizeError(e).category]

\* the main message of postResults (scheduler.ts:421-430)
ResultMessage == [format |-> "result", category |-> "none"]

\* the outer catch (scheduler.ts:231-240): JobManager.fail with the user
\* message of the category
CaughtOuter(r, e) ==
    [r EXCEPT !.pc = "errPost", !.err = e, !.status = "failed",
              !.summary = categorizeError(e).category]

\* the inner catch (scheduler.ts:218-229): a cancellation is recorded as
\* "Aborted by user" and only the reaction is updated; any other error is
\* thrown on to the outer catch
CaughtInner(r, e) ==
    IF IsAbortError(e) \/ r.aborted
    THEN [r EXCEPT !.pc = "finally", !.err = e, !.status = "failed",
                   !.summary = "Aborted by user"]
    ELSE CaughtOuter(r, e)

\* runWorker is called for a chat job or a Meet job (scheduler.ts:114-131)
RunWorker(meet) ==
    /\ out.pc = "idle"
    /\ out' = [out EXCEPT !.pc = "gather", !.meet = meet]
    /\ UNCHANGED notOut

\* abortController.abort(): session.abort / session.stop or the runtime
\* timeout (scheduler.ts:44-58, 184-187)
AbortRequested ==
    /\ out.pc \in {"gather", "loop", "post"}
    /\ ~out.aborted
    /\ out' = [out EXCEPT !.aborted = TRUE]
    /\ UNCHANGED notOut

\* context gathering ends (scheduler.ts:133-187) or throws, outside the
\* inner try
Gathered(ok, e) ==
    /\ out.pc = "gather"
    /\ out' = IF ok THEN [out EXCEPT !.pc = "loop"] ELSE CaughtOuter(out, e)
    /\ UNCHANGED notOut

\* runAgentLoop returns a result and JobManager.complete records it
\* (scheduler.ts:191-203)
LoopReturns ==
    /\ out.pc = "loop"
    /\ ~out.aborted
    /\ out' = [out EXCEPT !.pc = "post", !.status = "succeeded", !.summary = "result"]
    /\ UNCHANGED notOut

\* runAgentLoop throws (scheduler.ts:218)
LoopThrows(e) ==
    /\ out.pc = "loop"
    /\ out' = CaughtInner(out, e)
    /\ UNCHANGED notOut

\* postResults posts the result and returns (scheduler.ts:206-211), or its
\* postToThread throws (scheduler.ts:421-430)
PostResults(ok, e) ==
    /\ out.pc = "post"
    /\ out' = IF ok THEN [out EXCEPT !.pc = "finally", !.posts = Append(@, ResultMessage)]
              ELSE CaughtInner(out, e)
    /\ UNCHANGED notOut

\* the outer catch posts the formatted error (scheduler.ts:243-270), or the
\* post throws
ErrorPosted(ok) ==
    /\ out.pc = "errPost"
    /\ out' = [out EXCEPT !.pc = "finally",
                          !.posts = IF ok THEN Append(@, formatErrorForSlack(out.err)) ELSE @]
    /\ UNCHANGED notOut

\* the finally block (scheduler.ts:272-288)
ReportFinally ==
    /\ out.pc = "finally"
    /\ out' = [out EXCEPT !.pc = "done"]
    /\ UNCHANGED notOut

NextReport ==
    \/ \E meet \in BOOLEAN : RunWorker(meet)
    \/ AbortRequested
    \/ \E ok \in BOOLEAN, e \in ReportErrors : Gathered(ok, e)
    \/ LoopReturns
    \/ \E e \in ReportErrors : LoopThrows(e)
    \/ \E ok \in BOOLEAN, e \in ReportErrors : PostResults(ok, e)
    \/ \E ok \in BOOLEAN : ErrorPosted(ok)
    \/ ReportFinally

SpecReport == Init /\ [][NextReport]_vars

(***************************************************************************)
(* The tool registry (part_011) in one agent run: runAgentLoop resolves    *)
(* the tools of the session's mode once (agent.ts:197-207) and passes      *)
(* every tool call of the model to ToolRegistry.execute (agent.ts:280).    *)
(***************************************************************************)
ALL_TOOLS == {"read", "write", "edit", "glob", "grep", "bash", "git"}
CHAT_MODE_TOOLS == {"read", "glob", "grep", "git"}

\* the names the model may put into a tool call
RequestedNames == ALL_TOOLS \cup {"deploy"}

\* git.ts:14-26
GitOperations ==
    {"clone", "checkout", "branch", "add", "commit", "push", "pull", "status", "log",
     "diff", "pr"}
NoOperation == "none"

\* ToolRegistry.resolve (part_011:40-45)
resolve(mode) == IF mode = "chat" THEN CHAT_MODE_TOOLS ELSE ALL_TOOLS

\* GitTool.execute (git.ts:87-92)
GitAllowedAlways(mode, operation) == TRUE
GitAllowed(mode, operation) ==
    ~(mode = "chat" /\ operation \notin {"status", "log", "diff"})

\* the mode check at the head of a tool's execute (write.ts:25, edit.ts:27,
\* part_010:24, git.ts:87); read, glob and grep have none
ToolAllows(name, mode, operation) ==
    IF name \in {"write", "edit", "bash"} THEN mode # "chat"
    ELSE IF name = "git" THEN GitAllowed(mode, operation)
    ELSE TRUE

\* ToolRegistry.execute (part_011:171-206): the result of a tool call
ExecuteResult(name, operation, valid, tools, mode) ==
    IF name \notin tools THEN "Unknown tool"
    ELSE IF ~valid THEN "Invalid input"
    ELSE IF ~ToolAllows(name, mode, operation) THEN "not allowed"
    ELSE "performed"

\* runAgentLoop resolves the tools and builds the tool context
\* (agent.ts:197-207)
ResolveTools(mode) ==
    /\ reg.pc = "idle"
    /\ reg' = [reg EXCEPT !.pc = "ready", !.mode = mode, !.tools = resolve(mode)]
    /\ UNCHANGED notReg

\* ToolRegistry.execute for one tool call of the model (agent.ts:280-284,
\* part_011:171-206); valid: the input passes the tool's schema
Execute(name, operation, valid) ==
    /\ reg.pc = "ready"
    /\ Len(reg.calls) < MaxExecutes
    /\ (name = "git") = (operation # NoOperation)
    /\ LET result == ExecuteResult(name, operation, valid, reg.tools, reg.mode)
       IN  reg' = [reg EXCEPT
                     !.calls = Append(@, [name |-> name, operation |-> operation,
                                          result |-> result]),
                     !.performed = IF result = "performed"
                                   THEN @ \cup {<<name, operation>>} ELSE @]
    /\ UNCHANGED notReg

NextRegistry ==
    \/ \E mode \in {"code", "chat"} : ResolveTools(mode)
    \/ \E name \in RequestedNames, operation \in GitOperations \cup {NoOperation},
          valid \in BOOLEAN : Execute(name, operation, valid)

SpecRegistry == Init /\ [][NextRegistry]_vars

(***************************************************************************)
(* Process shutdown (index.ts:35-43, controller/index.ts:44-58).  main is  *)
(*   "running"   no SIGINT or SIGTERM received                             *)
(*   "stopping"  shutdown awaits controller.stop(), which stops the HTTP   *)
(*               server and the Slack handler                              *)
(*   "exited"    process.exit(0) was called                                *)
(* Until the process exits the scheduler goes on as before.                *)
(***************************************************************************)
\* SIGINT or SIGTERM: the handler calls shutdown (index.ts:36-43), which
\* calls controller.stop() and awaits it (controller/index.ts:44-58)
ShutdownSignal ==
    /\ main = "running"
    /\ main' = "stopping"
    /\ UNCHANGED notMain

\* controller.stop() has resolved: httpServer.stop() (http.ts:99-105) and
\* slackHandler.stop() (http.ts:854-860) are done; shutdown calls
\* process.exit(0) (index.ts:39)
ProcessExit ==
    /\ main = "stopping"
    /\ main' = "exited"
    /\ UNCHANGED notMain

NextShutdown ==
    \/ main # "exited" /\ Next
    \/ ShutdownSignal
    \/ ProcessExit

SpecShutdown == Init /\ [][NextShutdown]_vars

(***************************************************************************)
(* EventBus (part_006:121-196): subscribe, the unsubscribe function it     *)
(* returns, and one publish call at a time with its two for-of loops.  A   *)
(* for-of loop over a Set visits the entries in insertion order, including *)
(* those added while it runs and excluding those deleted before it reaches *)
(* them: the cursor is the serial of the entry visited last.               *)
(***************************************************************************)
Subscribed(b, h, key) == \E i \in 1..Len(b.entries) : b.entries[i].h = h /\ b.entries[i].key = key

Publishing(b) == b.pc \in {"type", "wild"}

\* the key of the Set the running loop iterates
LoopKey(b) == IF b.pc = "type" THEN b.event ELSE Wildcard

\* positions of the entries the loop has still to visit
Remaining(b) ==
    {i \in 1..Len(b.entries) : b.entries[i].key = LoopKey(b) /\ b.entries[i].serial > b.cursor}

NextEntry(b) == b.entries[CHOOSE i \in Remaining(b) : \A k \in Remaining(b) : i <= k]

\* what the callback is called with: payload (part_006:170), or
\* { type: eventType, payload } for a wildcard subscriber (part_006:182)
Argument(b) ==
    IF b.pc = "type" THEN [type |-> "none", payload |-> b.payload]
    ELSE [type |-> b.event, payload |-> b.payload]

\* `await callback(...)`: the loop goes on when the callback has settled
CanStartUnawaited(b) == TRUE
CanStart(b) == b.running = {}

\* the catch blocks (part_006:171-173, 183-185)
AfterThrowPropagates(b, call) ==
    [b EXCEPT !.running = @ \ {call}, !.threw = @ \cup {call},
              !.pc = "done", !.rejected = TRUE]
AfterThrow(b, call) ==
    [b EXCEPT !.running = @ \ {call}, !.threw = @ \cup {call}, !.logged = @ + 1]

\* EventBus.subscribe (part_006:127-145); Set.add of a callback already in
\* the Set changes nothing
Subscribe(h, key) ==
    /\ bus.nextSerial <= MaxSubscribes
    /\ bus' = IF Subscribed(bus, h, key) THEN bus
              ELSE [bus EXCEPT
                      !.entries = Append(@, [h |-> h, key |-> key, serial |-> bus.nextSerial]),
                      !.nextSerial = @ + 1,
                      !.changed = IF Publishing(bus) THEN @ \cup {<<h, key>>} ELSE @]
    /\ UNCHANGED notBus

\* the function subscribe returned (part_006:142-144)
Unsubscribe(h, key) ==
    /\ Subscribed(bus, h, key)
    /\ LET Others(x) == ~(x.h = h /\ x.key = key)
       IN  bus' = [bus EXCEPT !.entries = SelectSeq(@, Others),
                              !.changed = IF Publishing(bus) THEN @ \cup {<<h, key>>} ELSE @]
    /\ UNCHANGED notBus

\* EventBus.publish is called (part_006:157-165)
Publish(t) ==
    /\ bus.pc \in {"idle", "done"}
    /\ bus.publishes < MaxPublishes
    /\ bus' = [bus EXCEPT !.pc = "type", !.event = t, !.payload = bus.publishes + 1,
                          !.cursor = 0, !.running = {}, !.started = <<>>, !.threw = {},
                          !.logged = 0, !.changed = {}, !.publishes = @ + 1,
                          !.snapshot = {<<bus.entries[i].h, bus.entries[i].key>> :
                                          i \in {k \in 1..Len(bus.entries) :
                                                   bus.entries[k].key \in {t, Wildcard}}}]
    /\ UNCHANGED notBus

\* one iteration of a loop calls the next callback (part_006:168-170, 180-182)
HandlerStarts ==
    /\ Publishing(bus)
    /\ CanStart(bus)
    /\ Remaining(bus) # {}
    /\ LET x == NextEntry(bus)
       IN  bus' = [bus EXCEPT !.cursor = x.serial,
                              !.running = @ \cup {x.serial},
                              !.started = Append(@, [h |-> x.h, key |-> x.key,
                                                     serial |-> x.serial,
                                                     arg |-> Argument(bus)])]
    /\ UNCHANGED notBus

\* the callback returns, or the promise it returned resolves
HandlerReturns(call) ==
    /\ call \in bus.running
    /\ bus' = [bus EXCEPT !.running = @ \ {call}]
    /\ UNCHANGED notBus

\* the callback throws, or the promise it returned rejects
HandlerThrows(call) ==
    /\ call \in bus.running
    /\ bus' = AfterThrow(bus, call)
    /\ UNCHANGED notBus

\* the loop over the subscribers of the type is over (part_006:176-179)
TypeLoopEnds ==
    /\ bus.pc = "type"
    /\ CanStart(bus)
    /\ Remaining(bus) = {}
    /\ bus' = [bus EXCEPT !.pc = "wild", !.cursor = 0]
    /\ UNCHANGED notBus

\* the loop over the wildcard subscribers is over: publish resolves
PublishResolves ==
    /\ bus.pc = "wild"
    /\ CanStart(bus)
    /\ Remaining(bus) = {}
    /\ bus' = [bus EXCEPT !.pc = "done"]
    /\ UNCHANGED notBus

NextBus ==
    \/ \E h \in BusHandlers, key \in BusKeys : Subscribe(h, key)
    \/ \E h \in BusHandlers, key \in BusKeys : Unsubscribe(h, key)
    \/ \E t \in BusEventTypes : Publish(t)
    \/ HandlerStarts
    \/ \E call \in 1..MaxSubscribes : HandlerReturns(call)
    \/ \E call \in 1..MaxSubscribes : HandlerThrows(call)
    \/ TypeLoopEnds
    \/ PublishResolves

SpecBus == Init /\ [][NextBus]_vars

(***************************************************************************)
(* SessionManager.resolveOrCreate (part_009:32-72) over the local store    *)
(* (local.ts:86-103).  Each await of the function is a point where other   *)
(* calls run.                                                              *)
(***************************************************************************)
\* storage.sessions.findByThread (local.ts:96-103): the id of the first
\* session of the thread, or none
findByThread(store, t) ==
    LET found == {i \in 1..Len(store) : store[i].thread = t}
    IN  IF found = {} THEN NoSession
        ELSE store[CHOOSE i \in found : \A k \in found : i <= k].id

\* resolveOrCreate is called and awaits getStorage() (part_009:32-36)
ResolveCalled(c, t) ==
    /\ sess.calls[c].pc = "idle"
    /\ sess' = [sess EXCEPT !.calls[c] = [@ EXCEPT !.pc = "find", !.thread = t]]
    /\ UNCHANGED notSess

\* findByThread looks the session up (part_009:39-41); an existing session
\* is returned (part_009:71)
FindByThread(c) ==
    /\ sess.calls[c].pc = "find"
    /\ LET found == findByThread(sess.store, sess.calls[c].thread)
       IN  sess' = IF found # NoSession
                   THEN [sess EXCEPT !.calls[c] = [@ EXCEPT !.pc = "done", !.result = found]]
                   ELSE [sess EXCEPT !.calls[c] = [@ EXCEPT !.pc = "config"]]
    /\ UNCHANGED notSess

\* channelConfig.get has resolved; sessions.create stores the new session
\* (part_009:43-62, local.ts:87-91)
CreateSession(c) ==
    /\ sess.calls[c].pc = "config"
    /\ sess' = [sess EXCEPT
                  !.store = Append(@, [id |-> c, thread |-> sess.calls[c].thread,
                                       status |-> "idle"]),
                  !.calls[c] = [@ EXCEPT !.pc = "publish", !.result = c]]
    /\ UNCHANGED notSess

\* session.created is published and the new session returned
\* (part_009:64-71)
SessionCreatedPublished(c) ==
    /\ sess.calls[c].pc = "publish"
    /\ sess' = [sess EXCEPT !.calls[c] = [@ EXCEPT !.pc = "done"]]
    /\ UNCHANGED notSess

NextSessions ==
    \/ \E c \in ResolveIds, t \in Threads : ResolveCalled(c, t)
    \/ \E c \in ResolveIds : FindByThread(c)
    \/ \E c \in ResolveIds : CreateSession(c)
    \/ \E c \in ResolveIds : SessionCreatedPublished(c)

SpecSessions == Init /\ [][NextSessions]_vars

(***************************************************************************)
(* The error functions applied to one error value: the default             *)
(* retryability predicate of retry (part_005:40-105) and the taxonomy      *)
(* (errors.ts:35-246).  The value is an Error, a plain object or a string; *)
(* the numbers are those of the unit tests plus one redirect status.       *)
(***************************************************************************)
DirectStatuses == {NoStatus, 302, 400, 404, 429, 500, 503}
ResponseStatuses == {NoStatus, 404, 429}
InnerStatuses == {NoStatus, 401, 500}

ErrorValues ==
    {[NewError(m) EXCEPT !.name = n, !.status = st, !.response = rs, !.inner = inn] :
        m \in DOMAIN MessageSubstrings \ {"[object Object]"}, n \in {"Error", "AbortError"},
        st \in DirectStatuses, rs \in ResponseStatuses, inn \in InnerStatuses}
    \cup {[PlainObject(st, m) EXCEPT !.response = rs, !.inner = inn] :
        m \in DOMAIN MessageSubstrings \ {"[object Object]"},
        st \in DirectStatuses, rs \in ResponseStatuses, inn \in InnerStatuses}
    \cup {ThrownString(m) : m \in DOMAIN MessageSubstrings \ {"[object Object]", ""}}

InitErrors ==
    /\ cls \in {[NoClass EXCEPT !.pc = "thrown", !.e = e] : e \in ErrorValues}
    /\ agent = AgentCalled
    /\ proc = NoProc
    /\ rt = NoRetry
    /\ bus = NoBus
    /\ sess = NoSessions
    /\ main = "running"
    /\ out = NoReport
    /\ reg = NoRun
    /\ multi = NoScheduling
    /\ art = NoArtifacts
    /\ jobs = [j \in JobIds |-> NoJobRec]
    /\ sessionStatus = [s \in Sessions |-> "idle"]
    /\ activeWorkers = [s \in Sessions |-> NoWorker]
    /\ idleTimers = [s \in Sessions |-> FALSE]
    /\ enq = [j \in JobIds |-> NoEnq]
    /\ workers = [w \in WorkerIds |-> NoWorkerRec]
    /\ ctl = [abortPc |-> "idle", session |-> "s1", cancels |-> 0,
              runningAtAbort |-> NoJob, queuedAtAbort |-> {}]
    /\ published = NoEvent

\* the error reaches retry's catch block (part_005:243-249), which asks the
\* isRetryable option, by default isRetryableError; the status is what
\* getErrorStatus reads
RetryClassifies ==
    /\ cls.pc = "thrown"
    /\ cls' = [cls EXCEPT !.pc = "retried", !.status = getErrorStatus(cls.e),
                          !.accepted = isRetryableError(cls.e)]
    /\ UNCHANGED notCls

\* the error reaches categorizeError (errors.ts:35-179)
Categorize ==
    /\ cls.pc = "retried"
    /\ cls' = [cls EXCEPT !.pc = "categorized", !.claire = categorizeError(cls.e)]
    /\ UNCHANGED notCls

\* createError (errors.ts:233-246) constructs an error of a category
CreateError(category) ==
    /\ cls.pc = "categorized"
    /\ cls' = [cls EXCEPT !.pc = "created", !.created = createError(category)]
    /\ UNCHANGED notCls

NextErrors ==
    \/ RetryClassifies
    \/ Categorize
    \/ \E category \in ErrorCategory : CreateError(category)

SpecErrors == InitErrors /\ [][NextErrors]_vars

(***************************************************************************)
(* collectArtifacts (agent.ts:324-399) and the artifact store              *)
(* (local.ts:166-183), for the runAgentLoop calls of one session, which    *)
(* share the working directory /tmp/claire/<session id>.  Run r is the     *)
(* runAgentLoop call of job r; it is at                                    *)
(*   "idle"  not called                                                    *)
(*   "loop"  jobStartTime is taken, the agent loop is running              *)
(*   "scan"  in collectArtifacts, existingPaths read, files still to visit *)
(*   "done"  returned or thrown                                            *)
(* The scheduler starts a run while another run of the session is still    *)
(* in progress when two scheduleNext calls race (scheduler.ts:75-91).      *)
(* store is the set of Artifact records of the session; the id of a        *)
(* record, a random UUID, is modelled by the run and the path.             *)
(***************************************************************************)
\* agent.ts:350 - /^F[A-Z0-9]{10,}_/ tested on the name of the file
slackAttachmentPattern(f) == f \in {"F0A9XEJ7V8S_scan.png"}

\* agent.ts:362-380 - the three tests a file passes to be registered
Registers(f, existing, mtime, start) ==
    /\ ~slackAttachmentPattern(f)
    /\ f \notin existing
    /\ ~(mtime < start)

\* time passes
ClockTicks ==
    /\ art.clock < MaxClock
    /\ art' = [art EXCEPT !.clock = @ + 1]
    /\ UNCHANGED notArt

\* runAgentLoop is called for job r: jobStartTime = Date.now() (agent.ts:181)
RunStarts(r) ==
    /\ art.runs[r].pc = "idle"
    /\ art' = [art EXCEPT !.runs[r].pc = "loop", !.runs[r].start = art.clock]
    /\ UNCHANGED notArt

\* a tool of run r writes file f
FileWritten(r, f) ==
    /\ art.runs[r].pc = "loop"
    /\ art.mtime[f] # art.clock
    /\ art' = [art EXCEPT !.mtime[f] = art.clock]
    /\ UNCHANGED notArt

\* the loop of run r is left by an exception (agent.ts:220, 226, 268)
RunThrows(r) ==
    /\ art.runs[r].pc = "loop"
    /\ art' = [art EXCEPT !.runs[r].pc = "done"]
    /\ UNCHANGED notArt

\* collectArtifacts is called by run r: storage.artifacts.findBySession gives
\* existingPaths, glob the files (agent.ts:311, 346-357)
CollectBegins(r) ==
    /\ art.runs[r].pc = "loop"
    /\ art' = [art EXCEPT !.runs[r].pc = "scan",
                          !.runs[r].existing = {a.storageKey : a \in art.store},
                          !.runs[r].files = ArtifactFiles]
    /\ UNCHANGED notArt

\* one turn of the loop over the files (agent.ts:359-397): the tests, fs.stat
\* and storage.artifacts.create
CollectFile(r, f) ==
    /\ art.runs[r].pc = "scan"
    /\ f \in art.runs[r].files
    /\ art' = [art EXCEPT
                 !.runs[r].files = @ \ {f},
                 !.store = IF Registers(f, art.runs[r].existing, art.mtime[f],
                                        art.runs[r].start)
                           THEN @ \cup {[id |-> <<r, f>>, jobId |-> r, storageKey |-> f]}
                           ELSE @]
    /\ UNCHANGED notArt

\* collectArtifacts returns, and runAgentLoop after it (agent.ts:311-317)
CollectEnds(r) ==
    /\ art.runs[r].pc = "scan"
    /\ art.runs[r].files = {}
    /\ art' = [art EXCEPT !.runs[r].pc = "done"]
    /\ UNCHANGED notArt

NextArtifacts ==
    \/ ClockTicks
    \/ \E r \in Runs :
          \/ RunStarts(r)
          \/ \E f \in ArtifactFiles : FileWritten(r, f)
          \/ RunThrows(r)
          \/ CollectBegins(r)
          \/ \E f \in ArtifactFiles : CollectFile(r, f)
          \/ CollectEnds(r)

SpecArtifacts == Init /\ [][NextArtifacts]_vars

(***************************************************************************)
(* The scheduler with two sessions (scheduler.ts:30-109, 272-288,          *)
(* 465-481; part_009:329-348; local.ts:136-163).  Every map and every      *)
(* store query of the scheduler is keyed by the session id.  Here each     *)
(* handler is one step up to its first await on JobManager.getNext; the    *)
(* awaits inside the handlers are followed in the one-session model above. *)
(***************************************************************************)
\* a test for a worker of any session
hasWorkerAnywhere(m, s) == \E q \in TwoSessions : m.entries[q] # NoWorker

\* scheduler.ts:75 - activeWorkers.has(sessionId)
hasWorker(m, s) == m.entries[s] # NoWorker

\* local.ts:136-141 - the first queued job of the session (chat jobs, whose
\* timestamps follow the order of creation), NoJob when there is none
nextQueuedOf(m, s) ==
    LET q == {j \in 1..MaxEnqueues :
                 m.jobs[j].status = "queued" /\ m.jobs[j].session = s}
    IN  IF q = {} THEN NoJob ELSE CHOOSE j \in q : \A k \in q : j <= k

\* scheduler.ts:73-84 - the call of scheduleNext up to its await
callScheduleNext(m, s) ==
    IF hasWorker(m, s) THEN m ELSE [m EXCEPT !.pending[s] = @ + 1]

\* scheduler.ts:468-481 - abort and stop trigger the AbortController of the
\* ActiveWorker entry of the session, if there is one
abortWorkerOf(m, s) ==
    IF hasWorker(m, s) THEN [m EXCEPT !.invocations[m.entries[s]].aborted = TRUE] ELSE m

\* local.ts:153-163 - the queued jobs of the session are deleted
clearQueuedOf(m, s) ==
    [m EXCEPT !.jobs = [j \in 1..MaxEnqueues |->
                           IF m.jobs[j].status = "queued" /\ m.jobs[j].session = s
                           THEN [m.jobs[j] EXCEPT !.status = "removed"]
                           ELSE m.jobs[j]]]

Did(m, op, s) == [m EXCEPT !.last = [op |-> op, session |-> s]]

\* JobManager.enqueue (part_009:364-390) and the job.queued handler
\* (scheduler.ts:56-58)
EnqueueIn(s) ==
    /\ \E j \in 1..MaxEnqueues :
          /\ multi.jobs[j].status = "none"
          /\ \A k \in 1..(j - 1) : multi.jobs[k].status # "none"
          /\ multi.pending[s] < MaxPending
          /\ multi' = Did(callScheduleNext(
                              [multi EXCEPT !.jobs[j] = [status |-> "queued",
                                                         session |-> s]], s),
                          "enqueue", s)
    /\ UNCHANGED notMulti

\* scheduleNext resumes from JobManager.getNext (scheduler.ts:81-108) and, with
\* a job, runWorker marks it running and the session running
\* (scheduler.ts:125-130)
ScheduleNextResumes(s) ==
    /\ multi.pending[s] > 0
    /\ LET j == nextQueuedOf(multi, s)
           m == [multi EXCEPT !.pending[s] = @ - 1]
       IN  IF j = NoJob
           THEN multi' = Did(m, "scheduleNext", s)
           ELSE \E w \in 1..MaxInvocations :
                  /\ multi.invocations[w].pc = "unused"
                  /\ \A v \in 1..(w - 1) : multi.invocations[v].pc # "unused"
                  /\ multi' = Did([m EXCEPT !.entries[s] = w,
                                            !.invocations[w] =
                                                [pc |-> "running", session |-> s,
                                                 job |-> j, aborted |-> FALSE],
                                            !.jobs[j].status = "running",
                                            !.status[s] = "running"],
                                  "scheduleNext", s)
    /\ UNCHANGED notMulti

\* runWorker ends: the job is completed or failed, the finally block deletes
\* the entry of the session, sets the session idle and calls scheduleNext
\* (scheduler.ts:199-240, 272-288)
WorkerEnds(w) ==
    /\ multi.invocations[w].pc = "running"
    /\ multi.pending[multi.invocations[w].session] < MaxPending
    /\ LET s == multi.invocations[w].session
           j == multi.invocations[w].job
       IN  multi' = Did(callScheduleNext(
                           [multi EXCEPT !.invocations[w].pc = "ended",
                                         !.jobs[j].status =
                                             IF multi.invocations[w].aborted
                                             THEN "failed" ELSE "succeeded",
                                         !.entries[s] = NoWorker,
                                         !.status[s] = "idle"], s),
                        "finally", s)
    /\ UNCHANGED notMulti

\* SessionManager.abort (part_009:329-341): the session.abort handler
\* (scheduler.ts:46-48), clearQueued and the status of the session
AbortSession(s) ==
    /\ multi' = Did([clearQueuedOf(abortWorkerOf(multi, s), s)
                        EXCEPT !.status[s] = "aborted"], "abort", s)
    /\ UNCHANGED notMulti

\* SessionManager.stop (part_009:346-348) and the session.stop handler
\* (scheduler.ts:51-53)
StopSession(s) ==
    /\ multi' = Did(abortWorkerOf(multi, s), "stop", s)
    /\ UNCHANGED notMulti

NextSessionsApart ==
    \/ \E s \in TwoSessions :
          \/ EnqueueIn(s)
          \/ ScheduleNextResumes(s)
          \/ AbortSession(s)
          \/ StopSession(s)
    \/ \E w \in 1..MaxInvocations : WorkerEnds(w)

SpecSessionsApart == Init /\ [][NextSessionsApart]_vars

(***************************************************************************)
(* Properties of the scheduler.                                            *)
(***************************************************************************)
\* a runWorker invocation is in progress from its call until its finally
\* block has deleted the ActiveWorker entry
InProgress(w) ==
    workers[w].pc \in {"start", "gather", "loop", "collect", "completePub", "post",
                       "abortFailPub", "errFailPub", "finally"}

SameSession(j, k) == jobs[j].session = jobs[k].session

\* the step marks job j running for the first time
Starts(j) == jobs[j].status = "queued" /\ jobs'[j].status = "running"

\* the step is the call of scheduleNext made by the enqueue of job j
EnqCallsScheduleNext(j) == enq[j].pc = "publish" /\ enq'[j].pc # "publish"

\* the step is a call of scheduleNext made by worker w
WorkerCallsScheduleNext(w) ==
    /\ workers[w].pc \in {"completePub", "abortFailPub", "errFailPub", "arm"}
    /\ workers[w].snJob = NoJob
    /\ (workers'[w].pc # workers[w].pc \/ workers'[w].snJob # NoJob)

\* C1: at any moment at most one runWorker invocation is in progress for a
\* session
OneWorkerPerSession ==
    \A s \in Sessions :
        Cardinality({w \in WorkerIds : InProgress(w) /\ workers[w].session = s}) <= 1

\* C2: a call of scheduleNext made while the session has an ActiveWorker
\* changes nothing: the ActiveWorker map, the job records and the other
\* workers stay as they are, no worker is started, the caller is not left
\* waiting for a job, and the idle timers are not touched (the finally block
\* arms the timer itself just before its call)
ScheduleNextNoOpWhileActive ==
    [][\A s \in Sessions : HasActiveWorker(s) =>
         /\ \A j \in JobIds : (EnqCallsScheduleNext(j) /\ jobs[j].session = s) =>
                /\ enq'[j] = [pc |-> "done", snJob |-> NoJob]
                /\ activeWorkers' = activeWorkers /\ idleTimers' = idleTimers
                /\ jobs' = jobs /\ workers' = workers
         /\ \A w \in WorkerIds : (WorkerCallsScheduleNext(w) /\ workers[w].session = s) =>
                /\ workers' = [workers EXCEPT ![w] = Returned(@)]
                /\ activeWorkers' = activeWorkers /\ jobs' = jobs
                /\ idleTimers' = IF workers[w].pc = "arm"
                                  THEN [idleTimers EXCEPT ![s] = TRUE]
                                  ELSE idleTimers
      ]_vars

\* C2 witness: the enqueue of job j has just called scheduleNext while the
\* session had an ActiveWorker, and job j is still queued
ScheduleNextCalledWhileActive ==
    \E j \in JobIds :
        /\ published = Event("job.queued", j)
        /\ enq[j].pc = "done"
        /\ jobs[j].status = "queued"
        /\ HasActiveWorker(jobs[j].session)

\* C3: a job is started only when no job of its session submitted before it
\* is still queued, and when no other job of its session is running
StartInSubmissionOrder ==
    [][\A j \in JobIds : Starts(j) =>
         \A k \in JobIds \ {j} : SameSession(j, k) =>
             /\ (k < j => jobs[k].status # "queued")
             /\ jobs[k].status # "running"
      ]_vars

\* C4: after SessionManager.abort was called while a started job was active
\* and other jobs were queued, that job never ends otherwise than failed with
\* the cancellation as its reason, and the jobs queued then are never started
\* and are gone from the store once clearQueued was called
AbortCancelsAndClears ==
    (ctl.runningAtAbort # NoJob /\ ctl.queuedAtAbort # {}) =>
        /\ jobs[ctl.runningAtAbort].status \in {"running", "failed"}
        /\ jobs[ctl.runningAtAbort].status = "failed" =>
               jobs[ctl.runningAtAbort].summary = AbortedSummary
        /\ \A j \in ctl.queuedAtAbort :
               /\ jobs[j].status \in {"queued", "removed"}
               /\ ctl.abortPc # "clear" => jobs[j].status = "removed"

\* C5: the stored status of a job only moves queued -> running ->
\* succeeded | failed (a queued job may also be deleted by clearQueued)
StatusMovesForward ==
    [][\A j \in JobIds : jobs'[j].status # jobs[j].status =>
         <<jobs[j].status, jobs'[j].status>> \in
             {<<"none", "queued">>, <<"queued", "running">>, <<"queued", "removed">>,
              <<"running", "succeeded">>, <<"running", "failed">>}
      ]_vars

\* C6: once the run of a job that SessionManager.abort cancelled has ended,
\* abort has returned, no worker is left and no job is queued, the stored
\* status of the session is idle
SessionIdleAfterRun ==
    \A s \in Sessions :
        ( /\ ctl.runningAtAbort # NoJob /\ ctl.session = s /\ ctl.abortPc = "idle"
          /\ ~HasActiveWorker(s)
          /\ \A w \in WorkerIds : workers[w].pc = "unused"
          /\ QueuedJobs(s) = {} )
        => sessionStatus[s] = "idle"

\* C8: when JobManager.complete is called for a job whose record it found
\* already succeeded, it publishes no further job.completed event and so
\* triggers no further scheduleNext
CompleteOnceOnly ==
    [][\A w \in WorkerIds :
          ( /\ Resumable(w, "completePub") /\ workers[w].seen = "succeeded"
            /\ (workers'[w].pc # "completePub" \/ workers'[w].snJob # NoJob) )
          => published' # Event("job.completed", workers[w].job)
      ]_vars

\* C9: SessionManager.stop changes no job record; no job is started while
\* the worker that stop cancelled is still in progress, and the first job
\* started afterwards is the one submitted first; SessionManager.abort
\* leaves no job of the session queued
StopKeepsQueueAbortClears ==
    [][ /\ (\E w \in WorkerIds : workers[w].signal = "none" /\ workers'[w].signal = "stop")
               => jobs' = jobs
        /\ \A j \in JobIds, w \in WorkerIds :
              (Starts(j) /\ workers[w].signal = "stop"
                         /\ workers[w].session = jobs[j].session) =>
                  /\ ~InProgress(w)
                  /\ \A k \in JobIds : (k < j /\ SameSession(j, k)) =>
                         jobs[k].status # "queued"
        /\ (ctl.abortPc = "clear" /\ ctl'.abortPc = "status") =>
               QueuedJobs(ctl.session)' = {}
      ]_vars

CancelledLoopStartsNothing ==
    [][(AgentAborted /\ agent.signal # "collect") =>
          /\ (agent'.pc = "llm" => agent.pc = "llm")
          /\ (agent'.pc = "tool" => agent.pc = "tool")
          /\ agent'.pc # "returned"
      ]_vars

(***************************************************************************)
(* The runtime timeout (scheduler.ts:183-229).                             *)
(***************************************************************************)
\* C11: the runtime timer fires only while runAgentLoop is in progress, and
\* the job of a worker whose signal the timer triggered never ends otherwise
\* than failed with the reason of a user abort ("Aborted by user"): it is
\* neither succeeded nor failed with a categorized error message
TimeoutEndsAsAbort ==
    \A w \in WorkerIds : workers[w].signal = "timeout" =>
        /\ workers[w].pc \notin {"start", "gather"}
        /\ jobs[workers[w].job].status \in {"running", "failed"}
        /\ jobs[workers[w].job].status = "failed" =>
               jobs[workers[w].job].summary = AbortedSummary

KillEscalates ==
    [][ /\ (~proc.aborted /\ proc'.aborted /\ proc.alive) => "SIGTERM" \in proc'.sent
        /\ (proc.grace = "armed" /\ proc'.grace = "elapsed" /\ proc.alive)
               => "SIGKILL" \in proc'.sent
      ]_vars

(***************************************************************************)
(* Errors that are not cancellations (scheduler.ts:218-289).               *)
(***************************************************************************)
\* the step in which context gathering or runAgentLoop (an LLM call, the
\* loop, collectArtifacts) of worker w throws while its signal is not set
ThrowsUncancelled(w) ==
    /\ workers[w].pc \in {"gather", "loop", "collect"}
    /\ ~Aborted(w)
    /\ workers'[w].pc \in {"errFailPub", "abortFailPub"}

\* the step is one of worker w itself: its position changes
WorkerMoves(w) ==
    <<workers'[w].pc, workers'[w].snJob>> # <<workers[w].pc, workers[w].snJob>>

LastAccepted == rt.fails >= 1 /\ Accepted(rt.opts.pred, rt.thrown)

RetryDone == rt.pc = "done"

\* C15: a call that ends in success after k failures reports success, the
\* value of the operation and attempts = k + 1, with k <= maxRetries and
\* k + 1 invocations; and while the signal is not set, retry does not end in
\* failure after k <= maxRetries failures the last of which was retryable,
\* so that the success after them is reached
RetrySucceedsAfterFailures ==
    /\ rt.pc = "op" => rt.calls = rt.fails + 1
    /\ (RetryDone /\ rt.result.success) =>
          /\ rt.result.attempts = rt.fails + 1
          /\ rt.calls = rt.fails + 1
          /\ rt.result.data = OpValue
          /\ rt.fails <= rt.opts.maxRetries
    /\ (RetryDone /\ ~rt.result.success /\ ~SignalAborted(rt)) =>
          ~(LastAccepted /\ rt.fails <= rt.opts.maxRetries)

\* C15 witness: two retryable failures, then success with attempts = 3
SucceededOnThirdAttempt ==
    /\ RetryDone /\ rt.result.success
    /\ rt.fails = 2 /\ rt.result.attempts = 3 /\ rt.result.data = OpValue

\* C16: once the operation has failed with an error the predicate in use
\* does not accept, the call is over and the operation is not invoked again:
\* retry returns success = false with that error (itself when it is an Error,
\* else an Error made of its message) and attempts = the number of
\* invocations, which is 1 when this was the first failure, whatever
\* maxRetries is; retryOrThrow throws that error
NonRetryableEndsRetry ==
    (rt.fails >= 1 /\ ~Accepted(rt.opts.pred, rt.thrown)) =>
        /\ RetryDone
        /\ rt.calls = rt.fails /\ rt.result.attempts = rt.fails
        /\ ~rt.result.success
        /\ rt.result.error = ToError(rt.thrown)
        /\ rt.result.error.msg = rt.thrown.msg
        /\ rt.result.kind = IF rt.opts.orThrow THEN "thrown" ELSE "result"

\* C16 witness: retryOrThrow with maxRetries > 0 has thrown after a single
\* invocation that failed with status 400
ThrownAfterOneBadRequest ==
    /\ RetryDone /\ rt.opts.orThrow /\ rt.opts.maxRetries > 0
    /\ rt.thrown.status = 400 /\ rt.calls = 1
    /\ rt.result.kind = "thrown" /\ rt.result.attempts = 1

\* C17: the operation is never invoked more than maxRetries + 1 times; a call
\* whose signal is not set and whose operation failed every time with errors
\* the predicate in use accepts ends after exactly maxRetries + 1 invocations,
\* with success = false, the last error and attempts = maxRetries + 1
AlwaysFailingStops ==
    /\ rt.calls <= rt.opts.maxRetries + 1
    /\ (RetryDone /\ ~rt.result.success /\ ~SignalAborted(rt) /\ LastAccepted) =>
          /\ rt.calls = rt.opts.maxRetries + 1
          /\ rt.fails = rt.opts.maxRetries + 1
          /\ rt.result.attempts = rt.opts.maxRetries + 1
          /\ rt.result.error = ToError(rt.thrown)

\* C17 witness: with the custom predicate and maxRetries >= 2, the call has
\* ended in failure after maxRetries + 1 invocations
CustomRetriesExhausted ==
    /\ RetryDone /\ ~rt.result.success
    /\ rt.opts.pred = "custom" /\ rt.opts.maxRetries >= 2
    /\ rt.thrown.msg = "Custom error"
    /\ rt.calls = rt.opts.maxRetries + 1

\* C18: in a call that was given the signal, the operation is not invoked
\* after the signal was set; and when the signal was set during a sleep, or
\* before the call so that it is set when the first attempt is about to
\* begin, the call is over at once, with success = false and the error
\* message "Aborted"
AbortEndsRetry ==
    (rt.opts.hasSignal /\ rt.aborted /\ rt.pc # "idle") =>
        /\ rt.calls = rt.sigAt
        /\ rt.pc # "sleep"
        /\ rt.sigPc \in {"idle", "sleep"} =>
              /\ RetryDone
              /\ ~rt.result.success
              /\ rt.result.error.msg = "Aborted"

\* C18 witness: the signal was set during the sleep after a retryable
\* failure, with retries left, and the call has ended with "Aborted"
AbortedWhileSleeping ==
    /\ RetryDone /\ rt.opts.hasSignal /\ rt.sigPc = "sleep"
    /\ LastAccepted /\ rt.fails <= rt.opts.maxRetries
    /\ rt.result.error.msg = "Aborted" /\ rt.calls = rt.fails

\* the jitter fraction drawn for the wait, in hundredths
JitterDrawn == IF rt.opts.jitter THEN rt.pct ELSE 0

\* the failed attempt's error carries a retry-after duration
CarriesRetryAfter ==
    rt.thrown.header.type \in {"number", "string"} /\ rt.thrown.header.sec > 0

\* C19: the wait computed by exponential backoff after attempt n is
\* min(initialDelay * backoffFactor^n * (1 + jitter), maxDelay), and so never
\* exceeds maxDelayMs
BackoffWithinMaxDelay ==
    (rt.pc = "sleep" /\ ~CarriesRetryAfter) =>
        /\ rt.delay = Min(Round(InitialDelayMs * Pow(BackoffFactor, rt.attempt)
                                  * (100 + JitterDrawn), 100),
                          rt.opts.maxDelayMs)
        /\ rt.delay <= rt.opts.maxDelayMs

\* C20 as stated: when the error of the failed attempt carries a retry-after
\* duration, the wait is that duration in milliseconds
RetryAfterIsTheWait ==
    (rt.pc = "sleep" /\ CarriesRetryAfter) => rt.delay = rt.thrown.header.sec * 1000

\* C20 amended: when the error of the failed attempt carries a retry-after
\* duration, the wait is the smaller of that duration in milliseconds and
\* maxDelayMs, whatever the computed backoff delay is
RetryAfterCappedIsTheWait ==
    (rt.pc = "sleep" /\ CarriesRetryAfter) =>
        rt.delay = Min(rt.thrown.header.sec * 1000, rt.opts.maxDelayMs)

\* C20 witness: a retry-after of 2 seconds below maxDelayMs is waited for,
\* not the backoff delay of the first attempt
WaitsForRetryAfter ==
    /\ rt.pc = "sleep" /\ rt.thrown.header.sec = 2
    /\ rt.opts.maxDelayMs = DefaultMaxDelayMs
    /\ rt.delay = 2000
    /\ rt.attempt = 0

(***************************************************************************)
(* Properties of the error functions.                                      *)
(***************************************************************************)
\* the first status an error carries, looking at error.status, then
\* error.response.status, then error.error.status
StatusInOrder(e) ==
    IF e.kind = "string" THEN NoStatus
    ELSE IF e.status # NoStatus THEN e.status
    ELSE IF e.response # NoStatus THEN e.response
    ELSE e.inner

HasMessage(e) == e.kind \in {"Error", "object"}

\* retryable by the rule of the Retry Policy: 429 or 5xx, or no such status
\* and a network-error message; never an AbortError, never another 4xx
RetryableByRule(e) ==
    IF IsAbortError(e) THEN FALSE
    ELSE IF StatusInOrder(e) = 429 THEN TRUE
    ELSE IF StatusInOrder(e) >= 500 /\ StatusInOrder(e) < 600 THEN TRUE
    ELSE IF StatusInOrder(e) >= 400 /\ StatusInOrder(e) < 500 THEN FALSE
    ELSE HasMessage(e) /\ AnyIncluded(e.msg, NetworkMessages)

Retried == cls.pc \in {"retried", "categorized", "created"}

Categorized == cls.pc \in {"categorized", "created"}

\* C21: the default retryability predicate accepts exactly the errors with
\* status 429 or 5xx and the errors without such a status whose message has
\* a network-error substring; it rejects every other 4xx, every AbortError
\* and everything else; the status is the first of error.status,
\* error.response.status and error.error.status.
DefaultPredicateFollowsRule ==
    Retried =>
        /\ cls.accepted = RetryableByRule(cls.e)
        /\ cls.status = IF StatusInOrder(cls.e) = NoStatus THEN Null
                        ELSE StatusInOrder(cls.e)

\* C22: an unknown (internal) error is retryable: the Retry Policy accepts
\* it for another attempt, categorizeError flags it retryable, and an
\* internal error built by createError carries the same flag.
InternalErrorIsRetryable ==
    /\ (Categorized /\ cls.claire.category = "internal"
            /\ StatusInOrder(cls.e) = NoStatus)
        => (cls.accepted /\ cls.claire.retryable)
    /\ (cls.pc = "created" /\ cls.created.category = "internal")
        => cls.created.retryable

\* C23: an error the taxonomy classifies rate_limit, network or timeout is
\* accepted by the default retryability predicate; one it classifies auth,
\* permission, not_found, llm_error or validation is rejected.
TaxonomyAgreesWithRetry ==
    Categorized =>
        /\ cls.claire.category \in {"rate_limit", "network", "timeout"} => cls.accepted
        /\ cls.claire.category \in {"auth", "permission", "not_found", "llm_error",
                                     "validation"} => ~cls.accepted

(***************************************************************************)
(* Properties of the EventBus.                                             *)
(***************************************************************************)
\* the number of times the publish call has invoked a subscription
CallsOf(call) ==
    Cardinality({i \in 1..Len(bus.started) :
                    bus.started[i].h = call[1] /\ bus.started[i].key = call[2]})

\* subscribed when publish was called and neither unsubscribed nor
\* subscribed again while it ran
StableSubscribers == bus.snapshot \ bus.changed

\* C24: publish never rejects because of a subscriber: the error of a
\* handler that throws or rejects is only logged, and when publish has
\* resolved every subscriber of the event and every wildcard subscriber has
\* been invoked exactly once.
PublishSurvivesHandlers ==
    /\ ~bus.rejected
    /\ bus.logged = Cardinality(bus.threw)
    /\ bus.pc = "done" => \A call \in StableSubscribers : CallsOf(call) = 1

\* a publish resolved in which the first handler threw and a later
\* subscriber of the type and a wildcard subscriber were invoked after it
ThrowerDidNotStopPublish ==
    /\ bus.pc = "done"
    /\ Len(bus.started) >= 3
    /\ bus.started[1].serial \in bus.threw
    /\ bus.started[2].key = bus.event
    /\ bus.started[3].key = Wildcard
    /\ \A i \in 1..3 : <<bus.started[i].h, bus.started[i].key>> \in StableSubscribers

\* C25: within one publish the handlers run one after another, never two
\* at a time: the subscribers of the event's type in subscription order,
\* then the wildcard subscribers; a type subscriber receives the payload, a
\* wildcard subscriber {type, payload}, once per published event; publish
\* resolves only when no handler is running any more.
HandlersRunInSequence ==
    /\ Cardinality(bus.running) <= 1
    /\ \A i, k \in 1..Len(bus.started) :
          i < k => /\ bus.started[i].key = Wildcard => bus.started[k].key = Wildcard
                   /\ bus.started[i].key = bus.started[k].key
                         => bus.started[i].serial < bus.started[k].serial
    /\ \A i \in 1..Len(bus.started) :
          /\ bus.started[i].key \in {bus.event, Wildcard}
          /\ bus.started[i].arg =
                IF bus.started[i].key = Wildcard
                THEN [type |-> bus.event, payload |-> bus.payload]
                ELSE [type |-> "none", payload |-> bus.payload]
    /\ bus.pc = "done" =>
          /\ bus.running = {}
          /\ \A call \in StableSubscribers : CallsOf(call) = 1

\* the second publish resolved after two subscribers of the type and a
\* wildcard subscriber had run in it
SecondPublishRanThree ==
    /\ bus.pc = "done"
    /\ bus.publishes = 2
    /\ Len(bus.started) = 3
    /\ bus.started[1].key = bus.event
    /\ bus.started[2].key = bus.event
    /\ bus.started[3].key = Wildcard

(***************************************************************************)
(* Properties of the session store.                                        *)
(***************************************************************************)
SessionsOf(t) == {i \in 1..Len(sess.store) : sess.store[i].thread = t}

\* C26: whatever the interleaving of the resolveOrCreate calls for one
\* thread, at most one session exists for the thread, every session is
\* created with status idle, and every call for the thread returns that
\* one session.
OneSessionPerThread ==
    /\ \A t \in Threads : Cardinality(SessionsOf(t)) <= 1
    /\ \A i \in 1..Len(sess.store) : sess.store[i].status = "idle"
    /\ \A c, d \in ResolveIds :
          (sess.calls[c].pc = "done" /\ sess.calls[d].pc = "done"
              /\ sess.calls[c].thread = sess.calls[d].thread)
          => sess.calls[c].result = sess.calls[d].result

(***************************************************************************)
(* Properties of the shutdown.                                             *)
(***************************************************************************)
\* C27: when the process exits after SIGINT or SIGTERM, the cancellation
\* handle of every runWorker invocation still in progress has been
\* triggered.
ExitCancelsActiveWorkers ==
    main = "exited" => \A w \in WorkerIds : InProgress(w) => Aborted(w)

(***************************************************************************)
(* Properties of the reporting of a job's outcome.                         *)
(***************************************************************************)
\* C28: a failing notifier call does not change the outcome of a job: when
\* postResults ends, by returning or by throwing, the job whose agent loop
\* returned a result stays succeeded with its result summary.
PostFailureKeepsOutcome ==
    [][\A w \in WorkerIds :
          (workers[w].pc = "post" /\ workers'[w].pc # "post")
          => /\ jobs'[workers[w].job].status = "succeeded"
             /\ jobs'[workers[w].job].summary = ResultSummary]_vars

\* the job was cancelled: recorded "Aborted by user", or its signal was set
Cancelled == out.summary = "Aborted by user" \/ out.aborted

\* C29: a finished job has exactly one outcome message: the result summary
\* when it succeeded, one error message when it failed, and one neutral
\* cancellation notice, not formatted as an error, when it was cancelled.
OneOutcomeMessage ==
    out.pc = "done" =>
        /\ Len(out.posts) = 1
        /\ Cancelled => out.posts[1].format = "notice"
        /\ (~Cancelled /\ out.status = "succeeded") => out.posts[1].format = "result"
        /\ (~Cancelled /\ out.status = "failed") => out.posts[1].format = "error"

(***************************************************************************)
(* Properties of the tool registry.                                        *)
(***************************************************************************)
\* a tool call that would modify something: write, edit, bash, or a git
\* operation other than status, log and diff
Modifying(name, operation) ==
    \/ name \in {"write", "edit", "bash"}
    \/ name = "git" /\ operation \notin {"status", "log", "diff"}

\* C30: in a chat-mode run every tool call naming write, edit or bash, or a
\* git operation other than status, log and diff, has an error result and
\* its operation is not performed, whatever the sequence of tool calls.
ChatModeModifiesNothing ==
    reg.mode = "chat" =>
        /\ \A i \in 1..Len(reg.calls) :
              Modifying(reg.calls[i].name, reg.calls[i].operation)
              => reg.calls[i].result # "performed"
        /\ \A c \in reg.performed : ~Modifying(c[1], c[2])

\* a chat-mode run in which write and git push were refused and git status
\* was performed
ChatRefusedWriteAndPush ==
    /\ reg.mode = "chat"
    /\ Len(reg.calls) = 3
    /\ reg.calls[1].name = "write" /\ reg.calls[1].result = "Unknown tool"
    /\ reg.calls[2].name = "git" /\ reg.calls[2].operation = "push"
    /\ reg.calls[2].result = "not allowed"
    /\ reg.calls[3].name = "git" /\ reg.calls[3].operation = "status"
    /\ <<"git", "status">> \in reg.performed

(***************************************************************************)
(* The end of the agent loop and artifact collection (agent.ts:219-221,    *)
(* 310-318).                                                               *)
(***************************************************************************)
\* C31: whenever the agent loop has ended by the final answer of the model,
\* by the iteration cap or by cancellation, collectArtifacts was called for
\* the job.
ArtifactsCollectedAtEveryEnd ==
    (agent.pc = "returned" \/ (agent.pc = "thrown" /\ agent.text = "AbortError"))
        => agent.collected

(***************************************************************************)
(* The tool calls of one model turn (agent.ts:246-308).                    *)
(***************************************************************************)
\* the tool.completed events of the iteration of the latest response
ExecutedCalls == SelectSeq(agent.log, LAMBDA e : e[1] = "tool.completed")

\* C32: within one model turn the tool calls are executed one at a time in
\* the order of the response: the events of the turn are tool.executing and
\* tool.completed of call 1, then of call 2, and so on; the execution of a call
\* begins when the results of all calls before it have been obtained; and the
\* transcript receives the assistant turn with the tool calls and then one
\* tool result per call, in the same order.
ToolCallsInOrder ==
    /\ \A k \in 1..Len(agent.log) :
          agent.log[k] = <<IF k % 2 = 1 THEN "tool.executing" ELSE "tool.completed",
                           (k + 1) \div 2, agent.asked[(k + 1) \div 2]>>
    /\ agent.pc \in {"executing", "tool"} =>
          /\ Len(agent.results) = agent.idx - 1
          /\ Len(agent.log) = 2 * agent.idx - 1
    /\ \A k \in 1..Len(agent.results) : agent.results[k][1] = agent.calls[k]
    /\ Len(agent.turn) <= 2
    /\ Len(agent.turn) >= 1 => agent.turn[1] = AssistantTurn(agent.asked)
    /\ Len(agent.turn) = 2 =>
          /\ agent.turn[2].role = "user"
          /\ Len(agent.turn[2].content) = Len(agent.asked)
          /\ \A k \in 1..Len(agent.asked) : agent.turn[2].content[k][1] = agent.asked[k]

\* a turn of two different tool calls is finished and the next model call made
TwoCallsTurnFinished ==
    /\ agent.pc = "llm"
    /\ agent.asked = <<"bash", "read">>
    /\ Len(agent.turn) = 2
    /\ Len(agent.log) = 4

\* C33: the loop stops without executing tools only when the response has no
\* tool calls: whenever the loop makes its next model call, or has left the
\* loop, every tool call of the latest response has been executed.
RequestedCallsAllExecuted ==
    agent.pc \in {"llm", "collect", "returned"} =>
        /\ Len(ExecutedCalls) = Len(agent.asked)
        /\ \A k \in 1..Len(agent.asked) : ExecutedCalls[k][3] = agent.asked[k]

(***************************************************************************)
(* Failing tool calls (part_011:171-206, agent.ts:280-296).                *)
(***************************************************************************)
\* C38: a failing tool call never ends the agent loop: when
\* ToolRegistry.execute is done, whatever its error, a tool result with that
\* error is appended for the call and the loop is at the publication of
\* tool.completed; from there an uncancelled loop goes on to the next tool
\* call or, with the results in the transcript, to the next model call or the
\* end of the loop.
FailingToolKeepsLoop ==
    [][/\ (agent.pc = "tool" /\ agent'.pc # "tool") =>
             /\ agent'.pc = "completed"
             /\ \E e \in ExecuteErrors :
                   agent'.results = Append(agent.results, <<agent.calls[agent.idx], e>>)
       /\ (agent.pc = "completed" /\ agent'.pc # "completed" /\ ~AgentAborted) =>
             \/ agent'.pc = "executing" /\ agent'.idx = agent.idx + 1
             \/ /\ agent'.pc \in {"llm", "collect"}
                /\ agent'.turn = Append(agent.turn, UserTurn(agent.results))]_vars

\* a run returned after a turn in which one tool was unknown and one threw
ReturnedAfterFailedTools ==
    /\ agent.pc = "returned"
    /\ agent.jobStatus = "succeeded"
    /\ Len(agent.turn) = 2
    /\ agent.turn[2].content =
           <<<<"bash", "Unknown tool">>, <<"read", "Tool execution error">>>>

(***************************************************************************)
(* Artifact collection (agent.ts:324-399).                                 *)
(***************************************************************************)
\* collectArtifacts of run r deals with file f in this step
Visits(r, f) ==
    /\ art.runs[r].pc = "scan"
    /\ f \in art.runs[r].files
    /\ f \notin art'.runs[r].files

\* C34: collectArtifacts registers a file for the finishing job exactly when
\* the file was modified at or after the start of that job, is not an
\* input-attachment copy, and its path has not been registered by another job
\* of the session; and no path ever has two Artifact records.
ArtifactsRegisteredOnce ==
    /\ [](\A a, b \in art.store : a.storageKey = b.storageKey => a = b)
    /\ [][\A r \in Runs, f \in ArtifactFiles :
            Visits(r, f) =>
               ((\E a \in art'.store \ art.store : a.storageKey = f /\ a.jobId = r)
                  <=> /\ art.mtime[f] >= art.runs[r].start
                      /\ ~slackAttachmentPattern(f)
                      /\ ~\E a \in art.store : a.storageKey = f)]_vars

(***************************************************************************)
(* Jobs and workers (scheduler.ts:73-109, part_009:395-409).               *)
(***************************************************************************)
\* C35: no job is handed to more than one worker: runWorker is not invoked
\* for a job for which another runWorker invocation is in progress.
OneWorkerPerJob ==
    \A w, v \in WorkerIds :
        (InProgress(w) /\ InProgress(v) /\ workers[w].job = workers[v].job) => w = v

(***************************************************************************)
(* Jobs recorded as cancelled (scheduler.ts:218-240, errors.ts:39-48).     *)
(***************************************************************************)
\* C36: a job is recorded as cancelled (summary "Aborted by user", or the
\* user message of category aborted) or reported as cancelled (a posted
\* message of category aborted) only if its AbortController was triggered.
CancelledOnlyWhenTriggered ==
    (\/ out.summary \in {"Aborted by user", "aborted"}
     \/ \E k \in 1..Len(out.posts) : out.posts[k].category = "aborted")
        => out.aborted

(***************************************************************************)
(* Sessions in the scheduler (scheduler.ts:30-34, 468-481, local.ts:153).  *)
(***************************************************************************)
\* what the scheduler and the stores hold of session s
OfSession(m, s) ==
    [jobs |-> {<<j, m.jobs[j]>> : j \in {k \in 1..MaxEnqueues : m.jobs[k].session = s
                                                              /\ m.jobs[k].status # "none"}},
     status |-> m.status[s],
     entry |-> m.entries[s],
     invocations |-> {<<w, m.invocations[w]>> :
                         w \in {v \in 1..MaxInvocations :
                                   m.invocations[v].session = s
                                   /\ m.invocations[v].pc # "unused"}},
     pending |-> m.pending[s]]

\* C37: sessions are independent in the scheduler: a scheduleNext call for
\* session b goes on to the queue when b has no ActiveWorker entry, and starts
\* the first queued job of b when it resumes, whatever the workers of the
\* other session; and an abort or a stop of session a leaves the
\* AbortControllers, the jobs and the status of session b as they are.
SessionsIndependent ==
    [][\A a, b \in TwoSessions :
          /\ (a # b /\ multi' # multi /\ multi'.last.session = a
                    /\ multi'.last.op \in {"abort", "stop"})
                => OfSession(multi', b) = OfSession(multi, b)
          /\ (multi' # multi /\ multi'.last = [op |-> "enqueue", session |-> b]
                    /\ multi.entries[b] = NoWorker)
                => multi'.pending[b] = multi.pending[b] + 1
          /\ (multi' # multi /\ multi'.last = [op |-> "scheduleNext", session |-> b]
                    /\ nextQueuedOf(multi, b) # NoJob)
                => /\ multi'.entries[b] # NoWorker
                   /\ multi'.invocations[multi'.entries[b]] =
                          [pc |-> "running", session |-> b,
                           job |-> nextQueuedOf(multi, b), aborted |-> FALSE]]_vars

\* session A was aborted with a worker running and a job queued, while session
\* B, started after A, keeps its running worker and its queued job
AbortedBesideRunning ==
    /\ multi.last = [op |-> "abort", session |-> "A"]
    /\ multi.invocations[1] = [pc |-> "running", session |-> "A", job |-> 1,
                                aborted |-> TRUE]
    /\ multi.invocations[2] = [pc |-> "running", session |-> "B", job |-> 2,
                                aborted |-> FALSE]
    /\ multi.jobs[3] = [status |-> "queued", session |-> "B"]
    /\ multi.status = [s \in TwoSessions |-> IF s = "A" THEN "aborted" ELSE "running"]

(***************************************************************************)
(* The attempt count of retry (part_005:203-224, 266-285).                 *)
(***************************************************************************)
\* C39: in every result of retry, attempts is the number of times the
\* operation was invoked, also in a result returned because the signal was
\* set.
AttemptsAreInvocations ==
    rt.pc = "done" => rt.result.attempts = rt.calls

====
